---- MODULE Spec2Model ----
(***************************************************************************)
(* Model of the backtest core of ai-auto-trader: the simulated account of  *)
(* server/backtest/account.go (cash, positions, realized P&L, fees,        *)
(* slippage, liquidation, state save/restore), its CalculateMetrics, the   *)
(* Manager of the backtest runs and the simulation loop of a Runner.       *)
(*                                                                         *)
(* The float64 amounts of the account are modelled as exact rationals      *)
(* <<n, d>> in lowest terms (d > 0); <<0, 0>> stands for NaN (result of a  *)
(* division by zero); rounding is outside the model of the account.  The   *)
(* float64 arithmetic of CalculateMetrics is modelled with rounding.  Go   *)
(* pointers to Position are addresses into an explicit heap, so that       *)
(* aliasing between the account and a saved State is something the model   *)
(* can exhibit.                                                            *)
(***************************************************************************)
EXTENDS Integers, Sequences, FiniteSets, TLC

(***************************************************************************)
(* Bounds                                                                  *)
(***************************************************************************)
\* number of account operations performed in one behaviour
MaxOps == 3
\* significant bits of a rounded floating-point value (53 in the build)
MantissaBits == 9
\* number of points of an equity curve given to CalculateMetrics
MaxCurve == 4
\* number of events of a trade log given to CalculateMetrics
MaxTrades == 2
\* number of calls of the Manager begun in one behaviour
MaxCalls == 5
\* number of candles a LoadKlines call hands to a run
MaxKlines == 2
\* the largest c.config.MaxRetries of a client
MaxConfigRetries == 3

(***************************************************************************)
(* Exact rational arithmetic (stands for float64 arithmetic)               *)
(***************************************************************************)
Abs(i) == IF i < 0 THEN -i ELSE i

RECURSIVE GCD(_, _)
GCD(a, b) == IF b = 0 THEN a ELSE GCD(b, a % b)

NaN == <<0, 0>>

Rat(n, d) ==
    IF d = 0 THEN NaN
    ELSE LET g == GCD(Abs(n), Abs(d))
             s == IF d < 0 THEN -1 ELSE 1
         IN  <<(s * n) \div g, (s * d) \div g>>

FromInt(i) == <<i, 1>>
Zero == <<0, 1>>
One == <<1, 1>>
IsNaN(a) == a[2] = 0

Plus(a, b) ==
    IF IsNaN(a) \/ IsNaN(b) THEN NaN
    ELSE LET g == GCD(a[2], b[2])
         IN  Rat(a[1] * (b[2] \div g) + b[1] * (a[2] \div g), (a[2] \div g) * b[2])
Neg(a) == <<-a[1], a[2]>>
Minus(a, b) == Plus(a, Neg(b))
Times(a, b) ==
    IF IsNaN(a) \/ IsNaN(b) THEN NaN
    ELSE LET g1 == GCD(Abs(a[1]), b[2])
             g2 == GCD(Abs(b[1]), a[2])
         IN  IF a[1] = 0 \/ b[1] = 0 THEN Zero
             ELSE <<(a[1] \div g1) * (b[1] \div g2), (a[2] \div g2) * (b[2] \div g1)>>
Over(a, b) ==
    IF IsNaN(a) \/ IsNaN(b) \/ b[1] = 0 THEN NaN
    ELSE Times(a, Rat(b[2], b[1]))
\* comparisons; every comparison with NaN is false, as in IEEE 754
Less(a, b) == ~IsNaN(a) /\ ~IsNaN(b) /\ a[1] * b[2] < b[1] * a[2]
LessEq(a, b) == ~IsNaN(a) /\ ~IsNaN(b) /\ a[1] * b[2] <= b[1] * a[2]
Greater(a, b) == Less(b, a)
GreaterEq(a, b) == LessEq(b, a)

(***************************************************************************)
(* Rounded binary floating point (float64 arithmetic of CalculateMetrics)  *)
(*                                                                         *)
(* CalculateMetrics compares computed statistics with zero (stdRet > 0),   *)
(* so there the rounding of float64 decides the result.  Its arithmetic is *)
(* IEEE 754 binary floating point with round-to-nearest-even: every        *)
(* operation returns the representable value nearest to the exact result.  *)
(* A value is [m |-> mantissa, e |-> exponent], standing for m * 2^e, with *)
(* m odd or zero and at most MantissaBits significant bits.  The build has *)
(* 53 significant bits; the exponent range (overflow to Inf, subnormals)   *)
(* is outside the model.                                                   *)
(***************************************************************************)
Sgn(i) == IF i < 0 THEN -1 ELSE IF i > 0 THEN 1 ELSE 0

RECURSIVE BitLen(_)
\* number of significant bits of a natural number
BitLen(n) == IF n = 0 THEN 0 ELSE 1 + BitLen(n \div 2)

FZero == [m |-> 0, e |-> 0]

RECURSIVE Canon(_, _)
\* the unique representation of m * 2^e with an odd (or zero) mantissa
Canon(m, e) ==
    IF m = 0 THEN FZero
    ELSE IF m % 2 = 0 THEN Canon(m \div 2, e + 1)
    ELSE [m |-> m, e |-> e]

\* n * 2^e rounded to MantissaBits significant bits, ties to even
RoundNearestEven(n, e) ==
    LET a == Abs(n)
        k == BitLen(a) - MantissaBits
    IN  IF k <= 0 THEN Canon(n, e)
        ELSE LET q == a \div (2 ^ k)
                 r == a % (2 ^ k)
                 h == 2 ^ (k - 1)
                 up == r > h \/ (r = h /\ q % 2 = 1)
             IN  Canon(Sgn(n) * (IF up THEN q + 1 ELSE q), e + k)

\* float64(i)
FloatOf(i) == RoundNearestEven(i, 0)

\* position of the leading bit: |x| < 2^Magnitude(x)
Magnitude(x) == x.e + BitLen(Abs(x.m))

FNeg(x) == [m |-> -x.m, e |-> x.e]

\* x + y: an operand below a quarter of the other's last place is absorbed
FAdd(x, y) ==
    IF x.m = 0 THEN y
    ELSE IF y.m = 0 THEN x
    ELSE IF Magnitude(x) - Magnitude(y) > MantissaBits + 2 THEN x
    ELSE IF Magnitude(y) - Magnitude(x) > MantissaBits + 2 THEN y
    ELSE LET lo == IF x.e < y.e THEN x.e ELSE y.e
         IN  RoundNearestEven(x.m * (2 ^ (x.e - lo)) + y.m * (2 ^ (y.e - lo)), lo)

FSub(x, y) == FAdd(x, FNeg(y))

FMul(x, y) == RoundNearestEven(x.m * y.m, x.e + y.e)

\* x / y for y # 0: MantissaBits + 3 quotient bits and a sticky bit, rounded
FDiv(x, y) ==
    IF x.m = 0 THEN FZero
    ELSE LET s == MantissaBits + 3 + BitLen(Abs(y.m)) - BitLen(Abs(x.m))
             n == Abs(x.m) * (2 ^ s)
             q == n \div Abs(y.m)
             sticky == IF n % Abs(y.m) = 0 THEN 0 ELSE 1
         IN  RoundNearestEven(Sgn(x.m) * Sgn(y.m) * (2 * q + sticky), x.e - y.e - s - 1)

RECURSIVE ISqrtBetween(_, _, _)
\* the largest q in lo .. hi with q * q <= n
ISqrtBetween(n, lo, hi) ==
    IF lo = hi THEN lo
    ELSE LET mid == (lo + hi + 1) \div 2
         IN  IF mid * mid <= n THEN ISqrtBetween(n, mid, hi)
             ELSE ISqrtBetween(n, lo, mid - 1)

\* math.Sqrt(x) for x >= 0: the square root of the mantissa scaled to
\* 2 * MantissaBits + 4 bits (or one more, to make the exponent even)
FSqrt(x) ==
    IF x.m = 0 THEN FZero
    ELSE LET s0 == 2 * MantissaBits + 4 - BitLen(x.m)
             s == IF (x.e - s0) % 2 = 0 THEN s0 ELSE s0 + 1
             n == x.m * (2 ^ s)
             q == ISqrtBetween(n, 0, 2 ^ ((BitLen(n) + 1) \div 2))
             sticky == IF q * q = n THEN 0 ELSE 1
         IN  RoundNearestEven(2 * q + sticky, ((x.e - s) \div 2) - 1)

\* rounding keeps the sign of a difference (no underflow in the model)
FLess(x, y) == FSub(x, y).m < 0
FGreater(x, y) == FLess(y, x)

(***************************************************************************)
(* Test universe: the NewAccount arguments and the arguments the callers   *)
(* pass to the account operations                                          *)
(***************************************************************************)
Sides == {"long", "short"}

\* one record per simulated run: NewAccount(initialBalance, feeBps,
\* slippageBps) and the symbols, quantities, leverages and prices its
\* callers use.  The last run is the worked scenario of the specification
\* (section 8, testable properties).
Runs ==
    { [initialBalance |-> FromInt(10), feeBps |-> FromInt(0), slippageBps |-> FromInt(0),
       symbols |-> {"BTC"},
       quantities |-> {FromInt(0), FromInt(1), FromInt(2)},
       leverages |-> {0, 2}, prices |-> {FromInt(2), FromInt(4)}],
      [initialBalance |-> FromInt(10), feeBps |-> FromInt(1000), slippageBps |-> FromInt(1000),
       symbols |-> {"BTC"},
       quantities |-> {FromInt(0), FromInt(1), FromInt(2)},
       leverages |-> {2}, prices |-> {FromInt(2), FromInt(4)}],
      [initialBalance |-> FromInt(10), feeBps |-> FromInt(0), slippageBps |-> FromInt(0),
       symbols |-> {"BTC", "ETH"},
       quantities |-> {FromInt(1)},
       leverages |-> {2}, prices |-> {FromInt(2), FromInt(4)}],
      [initialBalance |-> FromInt(1000), feeBps |-> FromInt(4), slippageBps |-> FromInt(0),
       symbols |-> {"BTCUSDT"},
       quantities |-> {Rat(1, 100)},
       leverages |-> {10}, prices |-> {FromInt(45000), FromInt(50000), FromInt(55000)}] }

Symbols == UNION {r.symbols : r \in Runs}

\* price maps: any subset of the symbols, each with one of the prices
PriceMaps(symbols, prices) == UNION {[S -> prices] : S \in SUBSET symbols}

(***************************************************************************)
(* State                                                                   *)
(***************************************************************************)
VARIABLES
    run,            \* the arguments of this run (constant after Init)
    cash,           \* Account.cash
    positions,      \* Account.positions: key -> address of a Position
    realizedPnL,    \* Account.realizedPnL
    feeRate,        \* Account.feeRate
    slippageRate,   \* Account.slippageRate
    heap,           \* address -> Position, the allocated Position objects
    state,          \* a State object a caller saves to / restores from
    last,           \* the last operation: its arguments and what it returned
    nops,           \* number of operations so far (simulated clock)
    equityCurve,    \* the equity curve given to CalculateMetrics
    trades,         \* the trade log given to CalculateMetrics
    metrics,        \* the Metrics that CalculateMetrics returned
    runners,        \* Manager.runners: run ID -> address of a Runner
    metadata,       \* Manager.metadata: run ID -> metadata snapshot
    cancels,        \* Manager.cancels: run ID -> the task whose context it cancels
    objs,           \* address -> Runner, the Runner objects created
    tasks,          \* the background tasks launched by Start
    calls,          \* thread -> the call of the Manager it is in
    ncalls,         \* number of calls of the Manager begun so far
    loop,           \* the simulation loop of a Runner: its status, its position
                    \* in the cycle, the candle and the symbols of the cycle
    hist,           \* address -> whether the Start of that Runner has returned,
                    \* whether the run was deleted and whether a Stop succeeded
                    \* on it while it was Running (history)
    retry           \* a call of an AI client: the position in its retry loop,
                    \* its locals, and the attempts and sleeps made (history)

accountVars == <<run, cash, positions, realizedPnL, feeRate, slippageRate, heap, state, nops>>

metricsVars == <<equityCurve, trades, metrics>>

managerVars == <<runners, metadata, cancels, objs, tasks, calls, ncalls, hist>>

vars == <<accountVars, last, metricsVars, managerVars, loop, retry>>

\* faulty variant: the key is the symbol alone
positionKey_SymbolOnly(symbol, side) == symbol

positionKey(symbol, side) == symbol \o "_" \o side

Keys == {positionKey(s, d) : s \in Symbols, d \in Sides}

\* addresses: the account's positions, a State's positions and the copies a
\* save makes while the previous ones are still allocated
Addrs == 1 .. (3 * Cardinality(Keys))

Min(S) == CHOOSE x \in S : \A y \in S : x <= y

\* allocation of a new Position object: any address not in use
Alloc(h) == Min(Addrs \ DOMAIN h)

\* the account as one value: what the methods of *Account read and write
Acct == [cash |-> cash, realizedPnL |-> realizedPnL, positions |-> positions, heap |-> heap]

Restrict(f, S) == [x \in (DOMAIN f) \cap S |-> f[x]]

(***************************************************************************)
(* Account                                                                 *)
(***************************************************************************)
\* faulty variant: a close fills in the direction of an open
applySlippage_OpenDirection(price, side, isOpen) ==
    IF side = "long"
    THEN Times(price, Plus(One, slippageRate))
    ELSE Times(price, Minus(One, slippageRate))

applySlippage(price, side, isOpen) ==
    IF slippageRate = Zero THEN price
    ELSE IF side = "long"
         THEN IF isOpen THEN Times(price, Plus(One, slippageRate))
              ELSE Times(price, Minus(One, slippageRate))
         ELSE IF isOpen THEN Times(price, Minus(One, slippageRate))
              ELSE Times(price, Plus(One, slippageRate))

\* faulty variant: the price of a long, whatever the side
computeLiquidationPrice_LongOnly(entry, leverage, side) ==
    Times(entry, Minus(One, Over(One, FromInt(leverage))))

computeLiquidationPrice(entry, leverage, side) ==
    IF side = "long"
    THEN Times(entry, Minus(One, Over(One, FromInt(leverage))))
    ELSE Times(entry, Plus(One, Over(One, FromInt(leverage))))

\* faulty variant: a zero quantity is let through
InvalidQuantity_ZeroAllowed(quantity) == Less(quantity, Zero)

InvalidQuantity(quantity) == LessEq(quantity, Zero)

\* faulty variant: the fee is left out of the cash an open requires
RequiredCash_NoFee(margin, fee) == margin

RequiredCash(margin, fee) == Plus(margin, fee)

\* faulty variant: plain average of the two prices
MergeEntry_Unweighted(pos, execPrice, quantity, totalQty) ==
    Over(Plus(pos.EntryPrice, execPrice), FromInt(2))

\* weighted average entry of an add to an existing position
MergeEntry(pos, execPrice, quantity, totalQty) ==
    Over(Plus(Times(pos.EntryPrice, pos.Quantity), Times(execPrice, quantity)), totalQty)

\* faulty variant: an open is never refused for lack of cash
InsufficientCash_Never(required, available) == FALSE

\* required > a.cash
InsufficientCash(required, available) == Greater(required, available)

OpenFail(a, e) ==
    [a |-> a, pos |-> 0, fee |-> Zero, execPrice |-> Zero, err |-> e]

Open(a, symbol, side, quantity, leverageArg, price, ts) ==
    IF InvalidQuantity(quantity) THEN OpenFail(a, "InvalidQuantity")
    ELSE
    LET leverage == IF leverageArg <= 0 THEN 1 ELSE leverageArg
        execPrice == applySlippage(price, side, TRUE)
        notional == Times(execPrice, quantity)
        margin == Over(notional, FromInt(leverage))
        fee == Times(notional, feeRate)
        required == RequiredCash(margin, fee)
    IN  IF InsufficientCash(required, a.cash) THEN OpenFail(a, "InsufficientFunds")
        ELSE
        LET cash1 == Minus(a.cash, required)
            liqPrice == computeLiquidationPrice(execPrice, leverage, side)
            key == positionKey(symbol, side)
        IN  IF key \notin DOMAIN a.positions
            THEN LET p == Alloc(a.heap)
                     pos == [Symbol |-> symbol, Side |-> side, Quantity |-> quantity,
                             EntryPrice |-> execPrice, Leverage |-> leverage,
                             Margin |-> margin, Notional |-> notional,
                             LiquidationPrice |-> liqPrice, OpenTime |-> ts,
                             AccumulatedFee |-> fee]
                 IN  [a |-> [a EXCEPT !.cash = cash1,
                                      !.positions = (key :> p) @@ a.positions,
                                      !.heap = (p :> pos) @@ a.heap],
                      pos |-> p, fee |-> fee, execPrice |-> execPrice, err |-> "nil"]
            ELSE LET p == a.positions[key]
                     pos == a.heap[p]
                     totalQty == Plus(pos.Quantity, quantity)
                     entry == MergeEntry(pos, execPrice, quantity, totalQty)
                     merged == [pos EXCEPT
                                  !.EntryPrice = entry,
                                  !.Quantity = totalQty,
                                  !.Margin = Plus(pos.Margin, margin),
                                  !.Notional = Plus(pos.Notional, notional),
                                  !.AccumulatedFee = Plus(pos.AccumulatedFee, fee),
                                  !.LiquidationPrice =
                                      computeLiquidationPrice(entry, pos.Leverage, pos.Side)]
                 IN  [a |-> [a EXCEPT !.cash = cash1, !.heap = [a.heap EXCEPT ![p] = merged]],
                      pos |-> p, fee |-> fee, execPrice |-> execPrice, err |-> "nil"]

\* faulty variant: the requested quantity is closed as it is
CloseQuantity_Unclamped(pos, quantity) == quantity

\* quantity actually closed: the whole position when the request is out of range
CloseQuantity(pos, quantity) ==
    IF LessEq(quantity, Zero) \/ Greater(quantity, pos.Quantity) THEN pos.Quantity ELSE quantity

GrossRealized(pos, side, execPrice, quantity) ==
    IF side = "long"
    THEN Times(Minus(execPrice, pos.EntryPrice), quantity)
    ELSE Times(Minus(pos.EntryPrice, execPrice), quantity)

\* faulty variant: the notional, not the margin, is handed back
MarginReturn_Notional(pos, ratio) == Times(pos.Notional, ratio)

MarginReturn(pos, ratio) == Times(pos.Margin, ratio)

\* faulty variant: the closing fee is not taken from the cash returned
CashReturn_NoFee(marginReturn, realized, closeFee) == Plus(marginReturn, realized)

\* what a close adds to cash
CashReturn(marginReturn, realized, closeFee) == Minus(Plus(marginReturn, realized), closeFee)

\* faulty variant: a close of exactly the position's quantity keeps the position
FullyClosed_Strict(pos, quantity) == Greater(quantity, pos.Quantity)

\* the position is deleted, not shrunk
FullyClosed(pos, quantity) == GreaterEq(quantity, pos.Quantity)

\* faulty variant: the closed share of the opening fees stays on the position
Shrink_KeepsFee(pos, quantity, marginReturn, closeNotional, openFee) ==
    [pos EXCEPT !.Quantity = Minus(pos.Quantity, quantity),
                !.Margin = Minus(pos.Margin, marginReturn),
                !.Notional = Minus(pos.Notional, closeNotional)]

\* the partial-close branch: the position after quantity has been closed
Shrink(pos, quantity, marginReturn, closeNotional, openFee) ==
    [pos EXCEPT !.Quantity = Minus(pos.Quantity, quantity),
                !.Margin = Minus(pos.Margin, marginReturn),
                !.Notional = Minus(pos.Notional, closeNotional),
                !.AccumulatedFee = Minus(pos.AccumulatedFee, openFee)]

Close(a, symbol, side, quantityArg, price) ==
    LET key == positionKey(symbol, side)
    IN  IF key \notin DOMAIN a.positions
        THEN [a |-> a, realized |-> Zero, fee |-> Zero, execPrice |-> Zero,
              err |-> "PositionNotFound"]
        ELSE
        LET p == a.positions[key]
            pos == a.heap[p]
            quantity == CloseQuantity(pos, quantityArg)
            execPrice == applySlippage(price, side, FALSE)
            realized == GrossRealized(pos, side, execPrice, quantity)
            closeNotional == Times(execPrice, quantity)
            closeFee == Times(closeNotional, feeRate)
            ratio == Over(quantity, pos.Quantity)
            openFee == Times(pos.AccumulatedFee, ratio)
            totalFee == Plus(closeFee, openFee)
            marginReturn == MarginReturn(pos, ratio)
            cash1 == Plus(a.cash, CashReturn(marginReturn, realized, closeFee))
            netRealized == Minus(realized, totalFee)
            realizedPnL1 == Plus(a.realizedPnL, netRealized)
            a1 == [a EXCEPT !.cash = cash1, !.realizedPnL = realizedPnL1]
        IN  [a |-> IF FullyClosed(pos, quantity)
                   THEN [a1 EXCEPT !.positions = Restrict(a.positions, DOMAIN a.positions \ {key})]
                   ELSE [a1 EXCEPT !.heap = [a.heap EXCEPT ![p] =
                             Shrink(pos, quantity, marginReturn, closeNotional, openFee)]],
             realized |-> netRealized, fee |-> totalFee, execPrice |-> execPrice,
             err |-> "nil"]

\* all iteration orders of a map with key set S (Go does not fix the order)
RECURSIVE Orders(_)
Orders(S) ==
    IF S = {} THEN {<<>>}
    ELSE UNION {{<<x>> \o t : t \in Orders(S \ {x})} : x \in S}

\* faulty variant: a position without a quote is marked at zero
MarkPrice_ZeroFallback(priceMap, pos) ==
    IF pos.Symbol \in DOMAIN priceMap THEN priceMap[pos.Symbol] ELSE Zero

\* price used to mark a position: its own entry price when there is no quote
MarkPrice(priceMap, pos) ==
    IF pos.Symbol \in DOMAIN priceMap THEN priceMap[pos.Symbol] ELSE pos.EntryPrice

RECURSIVE TotalEquityLoop(_, _, _, _)
TotalEquityLoop(a, priceMap, order, acc) ==
    IF order = <<>> THEN acc
    ELSE LET key == Head(order)
             pos == a.heap[a.positions[key]]
             price == MarkPrice(priceMap, pos)
             pnl == IF pos.Side = "long"
                    THEN Times(Minus(price, pos.EntryPrice), pos.Quantity)
                    ELSE Times(Minus(pos.EntryPrice, price), pos.Quantity)
         IN  TotalEquityLoop(a, priceMap, Tail(order),
                 [unrealized |-> Plus(acc.unrealized, pnl),
                  perSymbol |-> (key :> pnl) @@ acc.perSymbol,
                  totalMargin |-> Plus(acc.totalMargin, pos.Margin)])

TotalEquity(a, priceMap, order) ==
    LET r == TotalEquityLoop(a, priceMap, order,
                 [unrealized |-> Zero, perSymbol |-> <<>>, totalMargin |-> Zero])
    IN  [equity |-> Plus(Plus(a.cash, r.totalMargin), r.unrealized),
         unrealized |-> r.unrealized, perSymbol |-> r.perSymbol]

\* breach test of CheckLiquidation
Breached(pos, price) ==
    \/ pos.Side = "long" /\ LessEq(price, pos.LiquidationPrice)
    \/ pos.Side = "short" /\ GreaterEq(price, pos.LiquidationPrice)

\* faulty variant: the position is closed at the market price
LiquidationClosePrice_Market(pos, price) == price

\* price CheckLiquidation hands to Close
LiquidationClosePrice(pos, price) == pos.LiquidationPrice

RECURSIVE CheckLiquidationLoop(_, _, _, _, _, _)
CheckLiquidationLoop(a, priceMap, ts, cycle, order, acc) ==
    IF order = <<>> THEN [a |-> a, events |-> acc.events, notes |-> acc.notes, err |-> "nil"]
    ELSE
    LET key == Head(order)
        rest == Tail(order)
    IN  IF key \notin DOMAIN a.positions
        THEN CheckLiquidationLoop(a, priceMap, ts, cycle, rest, acc)
        ELSE
        LET p == a.positions[key]
            pos == a.heap[p]
        IN  IF pos.Symbol \notin DOMAIN priceMap
            THEN CheckLiquidationLoop(a, priceMap, ts, cycle, rest, acc)
            ELSE
            LET price == priceMap[pos.Symbol]
            IN  IF ~Breached(pos, price)
                THEN CheckLiquidationLoop(a, priceMap, ts, cycle, rest, acc)
                ELSE
                LET c == Close(a, pos.Symbol, pos.Side, pos.Quantity,
                               LiquidationClosePrice(pos, price))
                    \* the event is built from the Position object after Close
                    after == c.a.heap[p]
                    event == [Timestamp |-> ts, Symbol |-> after.Symbol,
                              Action |-> "liquidated", Side |-> after.Side,
                              Quantity |-> after.Quantity, Price |-> c.execPrice,
                              Fee |-> c.fee, RealizedPnL |-> c.realized,
                              Leverage |-> after.Leverage, Cycle |-> cycle,
                              LiquidationFlag |-> TRUE,
                              Note |-> <<price, after.LiquidationPrice>>]
                    a2 == [c.a EXCEPT !.positions =
                               Restrict(c.a.positions, DOMAIN c.a.positions \ {key})]
                IN  IF c.err # "nil"
                    THEN [a |-> c.a, events |-> <<>>, notes |-> <<>>, err |-> c.err]
                    ELSE CheckLiquidationLoop(a2, priceMap, ts, cycle, rest,
                             [events |-> Append(acc.events, event),
                              notes |-> Append(acc.notes, <<after.Symbol, after.Side>>)])

CheckLiquidation(a, priceMap, ts, cycle, order) ==
    CheckLiquidationLoop(a, priceMap, ts, cycle, order, [events |-> <<>>, notes |-> <<>>])

(***************************************************************************)
(* State save / restore                                                    *)
(***************************************************************************)
\* faulty variant: the pointer is copied, not the Position
CopyPosition_Shallow(h, v) == [ptr |-> v, heap |-> h]

\* posCopy := *v; dst[k] = &posCopy : a new object holding a copy of *v
CopyPosition(h, v) ==
    LET fresh == Alloc(h) IN [ptr |-> fresh, heap |-> (fresh :> h[v]) @@ h]

RECURSIVE CopyPositions(_, _, _, _)
CopyPositions(h, src, order, dst) ==
    IF order = <<>> THEN [heap |-> h, map |-> dst]
    ELSE LET k == Head(order)
             c == CopyPosition(h, src[k])
         IN  CopyPositions(c.heap, src, Tail(order), (k :> c.ptr) @@ dst)

RestoreFromState(a, st, order) ==
    LET c == CopyPositions(a.heap, st.Positions, order, <<>>)
    IN  [a EXCEPT !.cash = st.Cash, !.realizedPnL = st.RealizedPnL,
                  !.positions = c.map, !.heap = c.heap]

\* returns the heap and the State after the save
SaveToState(a, st, order) ==
    LET c == CopyPositions(a.heap, a.positions, order, <<>>)
    IN  [heap |-> c.heap,
         state |-> [Cash |-> a.cash, RealizedPnL |-> a.realizedPnL, Positions |-> c.map]]

(***************************************************************************)
(* Memory management: unreferenced objects are collected and the live ones *)
(* are renumbered in a fixed order (addresses are not observable in Go)    *)
(***************************************************************************)
KeySeq == CHOOSE q \in Orders(Keys) : TRUE

\* the addresses a map refers to, in the order of KeySeq
RefSeq(m) ==
    LET ks == SelectSeq(KeySeq, LAMBDA k : k \in DOMAIN m)
    IN  [i \in 1 .. Len(ks) |-> m[ks[i]]]

RECURSIVE Renumber(_, _, _)
Renumber(refs, h, acc) ==
    IF refs = <<>> THEN acc
    ELSE IF Head(refs) \in DOMAIN acc.map THEN Renumber(Tail(refs), h, acc)
    ELSE Renumber(Tail(refs), h,
             [map |-> (Head(refs) :> (Len(acc.objs) + 1)) @@ acc.map,
              objs |-> Append(acc.objs, h[Head(refs)])])

Compact(h, pmap, smap) ==
    LET r == Renumber(RefSeq(pmap) \o RefSeq(smap), h, [map |-> <<>>, objs |-> <<>>])
    IN  [heap |-> r.objs,
         positions |-> [k \in DOMAIN pmap |-> r.map[pmap[k]]],
         statePositions |-> [k \in DOMAIN smap |-> r.map[smap[k]]]]

(***************************************************************************)
(* CalculateMetrics: performance metrics of an equity curve and trade log  *)
(***************************************************************************)
FAbs(x) == [m |-> Abs(x.m), e |-> x.e]

RECURSIVE SumFrom(_, _, _)
SumFrom(data, i, total) ==
    IF i > Len(data) THEN total ELSE SumFrom(data, i + 1, FAdd(total, data[i]))

sum(data) == SumFrom(data, 1, FZero)

mean(data) ==
    IF Len(data) = 0 THEN FZero ELSE FDiv(sum(data), FloatOf(Len(data)))

RECURSIVE VarianceFrom(_, _, _, _)
\* the loop of stdDev (the product is rounded before it is added: no fused
\* multiply-add, as in the amd64 build)
VarianceFrom(data, m, i, variance) ==
    IF i > Len(data) THEN variance
    ELSE VarianceFrom(data, m, i + 1,
             FAdd(variance, FMul(FSub(data[i], m), FSub(data[i], m))))

\* faulty variant: the deviation of a single value is its distance from zero
stdDev_SingleValue(data) ==
    IF Len(data) = 0 THEN FZero
    ELSE IF Len(data) = 1 THEN FAbs(data[1])
    ELSE FSqrt(FDiv(VarianceFrom(data, mean(data), 1, FZero), FloatOf(Len(data))))

stdDev(data) ==
    IF Len(data) <= 1 THEN FZero
    ELSE FSqrt(FDiv(VarianceFrom(data, mean(data), 1, FZero), FloatOf(Len(data))))

RECURSIVE MaxFrom(_, _, _)
MaxFrom(data, i, m) ==
    IF i > Len(data) THEN m
    ELSE MaxFrom(data, i + 1, IF FGreater(data[i], m) THEN data[i] ELSE m)

max(data) == IF Len(data) = 0 THEN FZero ELSE MaxFrom(data, 2, data[1])

RECURSIVE MinFrom(_, _, _)
MinFrom(data, i, m) ==
    IF i > Len(data) THEN m
    ELSE MinFrom(data, i + 1, IF FLess(data[i], m) THEN data[i] ELSE m)

min(data) == IF Len(data) = 0 THEN FZero ELSE MinFrom(data, 2, data[1])

RECURSIVE DrawdownLoop(_, _, _, _)
\* the max drawdown loop: the running peak and the largest drawdown fraction
DrawdownLoop(curve, i, peak, maxDD) ==
    IF i > Len(curve) THEN [peak |-> peak, maxDD |-> maxDD]
    ELSE LET p == IF FGreater(curve[i].Equity, peak) THEN curve[i].Equity ELSE peak
             dd == FDiv(FSub(p, curve[i].Equity), p)
         IN  DrawdownLoop(curve, i + 1, p, IF FGreater(dd, maxDD) THEN dd ELSE maxDD)

\* returns[i-1] = (equityCurve[i].Equity - equityCurve[i-1].Equity) / equityCurve[i-1].Equity
Returns(curve) ==
    [i \in 1 .. (Len(curve) - 1) |->
        FDiv(FSub(curve[i + 1].Equity, curve[i].Equity), curve[i].Equity)]

NegReturns(returns) == SelectSeq(returns, LAMBDA r : FLess(r, FZero))

\* (meanRet / deviation) * math.Sqrt(252) when the deviation is positive
Annualized(meanRet, deviation) ==
    IF FGreater(deviation, FZero)
    THEN FMul(FDiv(meanRet, deviation), FSqrt(FloatOf(252)))
    ELSE FZero

NewSymbolStats(symbol) ==
    [Symbol |-> symbol, TotalTrades |-> 0, WinRate |-> FZero, TotalPnL |-> FZero,
     AvgPnL |-> FZero, LongTrades |-> 0, ShortTrades |-> 0,
     LongWinRate |-> FZero, ShortWinRate |-> FZero]

\* faulty variant: entries without realized P&L are counted
Skipped_LiquidationsOnly(trade) == trade.Action = "liquidated"

\* trades the statistics skip: liquidations and entries without realized P&L
Skipped(trade) == trade.Action = "liquidated" \/ trade.RealizedPnL = FZero

RECURSIVE TradeLoop(_, _, _)
\* the loop over the trades: counters, fees, wins, losses, per-symbol stats
TradeLoop(log, i, acc) ==
    IF i > Len(log) THEN acc
    ELSE IF Skipped(log[i]) THEN TradeLoop(log, i + 1, acc)
    ELSE LET trade == log[i]
             long == trade.Side = "long"
             win == FGreater(trade.RealizedPnL, FZero)
             ss == IF trade.Symbol \in DOMAIN acc.symbolStats
                   THEN acc.symbolStats[trade.Symbol]
                   ELSE NewSymbolStats(trade.Symbol)
             ss1 == [ss EXCEPT
                        !.TotalTrades = @ + 1,
                        !.TotalPnL = FAdd(@, trade.RealizedPnL),
                        !.LongTrades = IF long THEN @ + 1 ELSE @,
                        !.ShortTrades = IF long THEN @ ELSE @ + 1,
                        !.LongWinRate = IF win /\ long THEN FAdd(@, FloatOf(1)) ELSE @,
                        !.ShortWinRate = IF win /\ ~long THEN FAdd(@, FloatOf(1)) ELSE @]
         IN  TradeLoop(log, i + 1,
                 [TotalTrades |-> acc.TotalTrades + 1,
                  TotalFees |-> FAdd(acc.TotalFees, trade.Fee),
                  WinningTrades |-> IF win THEN acc.WinningTrades + 1 ELSE acc.WinningTrades,
                  LosingTrades |-> IF win THEN acc.LosingTrades ELSE acc.LosingTrades + 1,
                  wins |-> IF win THEN Append(acc.wins, trade.RealizedPnL) ELSE acc.wins,
                  losses |-> IF win THEN acc.losses ELSE Append(acc.losses, trade.RealizedPnL),
                  symbolStats |-> (trade.Symbol :> ss1) @@ acc.symbolStats])

Percent(x) == FMul(x, FloatOf(100))

\* faulty variant: without losses the profit factor is the sum of the wins
ProfitFactor_WinsOnly(totalWins, totalLosses) ==
    IF FGreater(totalLosses, FZero) THEN FDiv(totalWins, totalLosses) ELSE totalWins

\* the profit factor: left at zero unless the losses are non-zero
ProfitFactor(totalWins, totalLosses) ==
    IF FGreater(totalLosses, FZero) THEN FDiv(totalWins, totalLosses) ELSE FZero

\* the "finalize symbol stats" loop body
FinalizeSymbolStats(ss, winningTrades) ==
    [ss EXCEPT
        !.AvgPnL = IF ss.TotalTrades > 0
                   THEN FDiv(ss.TotalPnL, FloatOf(ss.TotalTrades)) ELSE @,
        !.LongWinRate = IF ss.LongTrades > 0
                        THEN Percent(FDiv(@, FloatOf(ss.LongTrades))) ELSE @,
        !.ShortWinRate = IF ss.ShortTrades > 0
                         THEN Percent(FDiv(@, FloatOf(ss.ShortTrades))) ELSE @,
        !.WinRate = Percent(FDiv(FloatOf(winningTrades), FloatOf(ss.TotalTrades)))]

\* &Metrics{SymbolStats: make(map[string]*SymbolStats)}
EmptyMetrics ==
    [FinalEquity |-> FZero, TotalReturn |-> FZero, TotalReturnPct |-> FZero,
     MaxDrawdown |-> FZero, MaxDrawdownPct |-> FZero,
     SharpeRatio |-> FZero, SortinoRatio |-> FZero,
     TotalTrades |-> 0, WinningTrades |-> 0, LosingTrades |-> 0, TotalFees |-> FZero,
     WinRate |-> FZero, AvgWin |-> FZero, AvgLoss |-> FZero,
     LargestWin |-> FZero, LargestLoss |-> FZero, ProfitFactor |-> FZero,
     SymbolStats |-> <<>>]

CalculateMetrics(initialBalance, curve, log) ==
    IF Len(curve) = 0 THEN EmptyMetrics
    ELSE LET finalEquity == curve[Len(curve)].Equity
             totalReturn == FSub(finalEquity, initialBalance)
             d == DrawdownLoop(curve, 1, curve[1].Equity, FZero)
             returns == Returns(curve)
             meanRet == mean(returns)
             negReturns == NegReturns(returns)
             t == TradeLoop(log, 1,
                      [TotalTrades |-> 0, TotalFees |-> FZero, WinningTrades |-> 0,
                       LosingTrades |-> 0, wins |-> <<>>, losses |-> <<>>,
                       symbolStats |-> <<>>])
             totalWins == sum(t.wins)
             totalLosses == FAbs(sum(t.losses))
         IN  [FinalEquity |-> finalEquity,
              TotalReturn |-> totalReturn,
              TotalReturnPct |-> Percent(FDiv(totalReturn, initialBalance)),
              MaxDrawdown |-> FMul(d.peak, d.maxDD),
              MaxDrawdownPct |-> Percent(d.maxDD),
              SharpeRatio |-> IF Len(curve) > 1
                              THEN Annualized(meanRet, stdDev(returns)) ELSE FZero,
              SortinoRatio |-> IF Len(curve) > 1 /\ Len(negReturns) > 0
                               THEN Annualized(meanRet, stdDev(negReturns)) ELSE FZero,
              TotalTrades |-> t.TotalTrades,
              WinningTrades |-> t.WinningTrades,
              LosingTrades |-> t.LosingTrades,
              TotalFees |-> t.TotalFees,
              WinRate |-> IF t.TotalTrades > 0
                          THEN Percent(FDiv(FloatOf(t.WinningTrades), FloatOf(t.TotalTrades)))
                          ELSE FZero,
              AvgWin |-> IF Len(t.wins) > 0
                         THEN FDiv(sum(t.wins), FloatOf(Len(t.wins))) ELSE FZero,
              LargestWin |-> IF Len(t.wins) > 0 THEN max(t.wins) ELSE FZero,
              AvgLoss |-> IF Len(t.losses) > 0
                          THEN FDiv(sum(t.losses), FloatOf(Len(t.losses))) ELSE FZero,
              LargestLoss |-> IF Len(t.losses) > 0 THEN min(t.losses) ELSE FZero,
              ProfitFactor |-> ProfitFactor(totalWins, totalLosses),
              SymbolStats |-> [s \in DOMAIN t.symbolStats |->
                                  FinalizeSymbolStats(t.symbolStats[s], t.WinningTrades)]]

(***************************************************************************)
(* Actions: one per call of an account method                              *)
(***************************************************************************)
NewAccount(r) ==
    /\ run = r
    /\ cash = r.initialBalance
    /\ positions = <<>>
    /\ realizedPnL = Zero
    /\ feeRate = Over(r.feeBps, FromInt(10000))
    /\ slippageRate = Over(r.slippageBps, FromInt(10000))
    /\ heap = <<>>
    /\ state = [Cash |-> Zero, RealizedPnL |-> Zero, Positions |-> <<>>]
    /\ last = [op |-> "NewAccount"]
    /\ nops = 0

(***************************************************************************)
(* Manager: the supervisor of the backtest runs (package backtest).        *)
(*                                                                         *)
(* Every access to the three maps is made with Manager.mu held, so a       *)
(* critical section is one step of the model.  Start is two steps (the     *)
(* locked check-and-insert, then the go statement and the return), Stop is *)
(* two steps (the locked read, then the call of the cancel function), the  *)
(* background task of a run is a step per critical section with the steps  *)
(* of Runner.Start in between.  The parent context given to Start is never *)
(* cancelled.  The Runner itself (NewRunner, Runner.Start, GetMetadata,    *)
(* GetTrades, GetEquityCurve, LoadKlines) is modelled from its             *)
(* specification: a status, the candles loaded, the cycles run and the     *)
(* lengths of its two logs; a cycle is one step.                           *)
(***************************************************************************)
StatusPending == "pending"
StatusRunning == "running"
StatusCompleted == "completed"
StatusFailed == "failed"
StatusCancelled == "cancelled"

Terminal == {StatusCompleted, StatusFailed, StatusCancelled}

\* the callers of the Manager: concurrent requests
Threads == {1, 2}

\* cfg.RunID of a Start: none, or an ID that an earlier Start generated
CfgRunIDs == {"bt_1", ""}

\* fmt.Sprintf("bt_%d", time.Now().UnixNano()): the IDs Start can generate
GeneratedIDs == {"bt_1"}

RunIDs == (CfgRunIDs \ {""}) \cup GeneratedIDs

\* len(klines) of a LoadKlines call
KlineCounts == 1 .. MaxKlines

\* NewRunner(cfg, client)
NewRunner(id) ==
    [RunID |-> id, Status |-> StatusPending, Klines |-> 0, Cycle |-> 0,
     Trades |-> 0, EquityPoints |-> 0]

\* runner.GetMetadata(): a snapshot of the run's metadata
GetMetadata(runner) == [RunID |-> runner.RunID, Status |-> runner.Status]

IdleCall == [pc |-> "idle"]

\* the simulation loop of a new Runner with n candles loaded
NewLoop(n) ==
    [status |-> StatusPending, klines |-> n, cycle |-> 0, phase |-> "created",
     ctxDone |-> FALSE, candle |-> <<>>, checked |-> 0, liquidated |-> {}, todo |-> {}]

NoManager ==
    /\ runners = <<>>
    /\ metadata = <<>>
    /\ cancels = <<>>
    /\ objs = <<>>
    /\ tasks = <<>>
    /\ calls = [t \in Threads |-> IdleCall]
    /\ ncalls = 0
    /\ hist = <<>>

(***************************************************************************)
(* The retry loops of the AI clients                                       *)
(***************************************************************************)
\* const maxRetries = 3 of ChatWithReasoning
maxRetries == 3

\* the clients: ChatWithReasoning with its constant, CallWithRequest with
\* the c.config.MaxRetries that WithMaxRetries(n) has set
ClientCalls ==
    {[fn |-> "ChatWithReasoning", maxRetries |-> maxRetries]}
        \cup {[fn |-> "CallWithRequest", maxRetries |-> n] : n \in 0 .. MaxConfigRetries}

\* what doChat / doCall returns: a result or an error with this message
AttemptErrors == {"timeout", "429", "unauthorized"}

AttemptOutcomes == {"ok"} \cup AttemptErrors

\* the patterns of isRetryableError that the messages of the model can hold
RetryablePatterns == {"timeout", "429"}

\* isRetryableError(err): the message contains one of the patterns (every
\* message of the model is one pattern or holds none)
isRetryableError(err) == err # "nil" /\ \E pattern \in RetryablePatterns : err = pattern

\* the error values a call returns
NilError == [kind |-> "nil", wraps |-> "nil"]

AttemptError(err) == [kind |-> "attempt", wraps |-> err]

\* fmt.Errorf("max retries exceeded: %w", lastErr)
MaxRetriesExceeded(lastErr) == [kind |-> "max retries exceeded", wraps |-> lastErr]

\* the sleep after a failed attempt, in seconds for ChatWithReasoning
\* (1 << attempt) and in units of c.config.RetryDelay for CallWithRequest
Backoff(fn, attempt) == IF fn = "ChatWithReasoning" THEN 2 ^ attempt ELSE attempt

\* the call at its entry: var lastErr error; attempt := 1
NewRetry(call) ==
    [fn |-> call.fn, maxRetries |-> call.maxRetries, pc |-> "for", attempt |-> 1,
     lastErr |-> "nil", outcomes |-> <<>>, sleeps |-> <<>>,
     ret |-> [result |-> 0, err |-> NilError]]

\* no client is called in the runs of the account, the Manager or the Runner
NoRetry == retry = [NewRetry(CHOOSE c \in ClientCalls : c.fn = "ChatWithReasoning")
                       EXCEPT !.pc = "idle"]

\* no Runner runs its loop in the runs of the account or of the Manager alone
NoRunner == loop = NewLoop(0)

\* no metrics are computed in the runs of the account alone
NoMetrics == equityCurve = <<>> /\ trades = <<>> /\ metrics = EmptyMetrics

Init == (\E r \in Runs : NewAccount(r)) /\ NoMetrics /\ NoManager /\ NoRunner /\ NoRetry

\* the state after a call: account a, heap h, State st, call record l
CommitAccount(a, h, st) ==
    \E c \in {Compact(h, a.positions, st.Positions)} :
        /\ cash' = a.cash
        /\ realizedPnL' = a.realizedPnL
        /\ positions' = c.positions
        /\ heap' = c.heap
        /\ state' = [st EXCEPT !.Positions = c.statePositions]
        /\ UNCHANGED <<run, feeRate, slippageRate>>

\* the state after a call of a caller of the account, with its call record l
Commit(a, h, st, l) ==
        /\ CommitAccount(a, h, st)
        /\ last' = l
        /\ nops' = nops + 1
        /\ UNCHANGED <<metricsVars, managerVars, loop, retry>>

CallOpen ==
    /\ nops < MaxOps
    /\ \E symbol \in run.symbols, side \in Sides, quantity \in run.quantities,
          leverage \in run.leverages, price \in run.prices :
          \E r \in {Open(Acct, symbol, side, quantity, leverage, price, nops + 1)} :
              Commit(r.a, r.a.heap, state,
                     [op |-> "Open", symbol |-> symbol, side |-> side,
                      quantity |-> quantity, leverage |-> leverage, price |-> price,
                      fee |-> r.fee, execPrice |-> r.execPrice, err |-> r.err,
                      \* what the caller saw before the call
                      cashBefore |-> cash, realizedPnLBefore |-> realizedPnL,
                      hadPosition |-> positionKey(symbol, side) \in DOMAIN positions])

\* the call closes, with the same quantity and price, the position that the
\* call just before it created
IsRoundTrip(symbol, side, quantity, price) ==
    /\ last.op = "Open"
    /\ last.err = "nil"
    /\ ~last.hadPosition
    /\ last.symbol = symbol
    /\ last.side = side
    /\ last.quantity = quantity
    /\ last.price = price

CallClose ==
    /\ nops < MaxOps
    /\ \E symbol \in run.symbols, side \in Sides,
          quantity \in run.quantities \cup {FromInt(0)},
          price \in run.prices :
          \E r \in {Close(Acct, symbol, side, quantity, price)} :
              Commit(r.a, r.a.heap, state,
                     [op |-> "Close", symbol |-> symbol, side |-> side,
                      quantity |-> quantity, price |-> price,
                      realized |-> r.realized, fee |-> r.fee,
                      execPrice |-> r.execPrice, err |-> r.err,
                      roundTrip |-> IsRoundTrip(symbol, side, quantity, price)])

CallTotalEquity ==
    /\ nops < MaxOps
    /\ \E priceMap \in PriceMaps(run.symbols, run.prices), order \in Orders(DOMAIN positions) :
          \E r \in {TotalEquity(Acct, priceMap, order)} :
              Commit(Acct, heap, state,
                     [op |-> "TotalEquity", priceMap |-> priceMap, equity |-> r.equity,
                      unrealized |-> r.unrealized, perSymbol |-> r.perSymbol])

CallCheckLiquidation ==
    /\ nops < MaxOps
    /\ \E priceMap \in PriceMaps(run.symbols, run.prices), order \in Orders(DOMAIN positions) :
          \E r \in {CheckLiquidation(Acct, priceMap, nops + 1, nops, order)} :
              Commit(r.a, r.a.heap, state,
                     [op |-> "CheckLiquidation", priceMap |-> priceMap,
                      events |-> r.events, notes |-> r.notes, err |-> r.err])

CallSaveToState ==
    /\ nops < MaxOps
    /\ \E order \in Orders(DOMAIN positions) :
          \E r \in {SaveToState(Acct, state, order)} :
              Commit(Acct, r.heap, r.state, [op |-> "SaveToState"])

CallRestoreFromState ==
    /\ nops < MaxOps
    /\ \E order \in Orders(DOMAIN state.Positions) :
          \E a \in {RestoreFromState(Acct, state, order)} :
              Commit(a, a.heap, state, [op |-> "RestoreFromState"])

\* a caller writes to the State object it holds: a field of the State or,
\* through the pointer in State.Positions, a field of a saved Position
MutateState ==
    /\ nops < MaxOps
    /\ \/ Commit(Acct, heap, [state EXCEPT !.Cash = Plus(@, One)],
                 [op |-> "MutateState", field |-> "Cash"])
       \/ \E k \in DOMAIN state.Positions :
             Commit(Acct, [heap EXCEPT ![state.Positions[k]].Quantity = Plus(@, One)], state,
                    [op |-> "MutateState", field |-> k])

Next ==
    \/ CallOpen
    \/ CallClose
    \/ CallTotalEquity
    \/ CallCheckLiquidation

Spec == Init /\ [][Next]_vars

\* the account together with a caller that checkpoints it.  The caller's
\* State is either empty or a checkpoint of an earlier run: the State that
\* SaveToState wrote after Open("BTC", "long", 2, 2, 2, 7) on a new account
CheckpointRun == CHOOSE r \in Runs : r.feeBps = Zero /\ 0 \in r.leverages

Checkpoint ==
    [Cash |-> FromInt(8), RealizedPnL |-> Zero,
     Position |-> [Symbol |-> "BTC", Side |-> "long", Quantity |-> FromInt(2),
                   EntryPrice |-> FromInt(2), Leverage |-> 2, Margin |-> FromInt(2),
                   Notional |-> FromInt(4), LiquidationPrice |-> FromInt(1),
                   OpenTime |-> 7, AccumulatedFee |-> Zero]]

InitState ==
    /\ run = CheckpointRun
    /\ cash = run.initialBalance
    /\ positions = <<>>
    /\ realizedPnL = Zero
    /\ feeRate = Over(run.feeBps, FromInt(10000))
    /\ slippageRate = Over(run.slippageBps, FromInt(10000))
    /\ \/ /\ heap = <<>>
          /\ state = [Cash |-> Zero, RealizedPnL |-> Zero, Positions |-> <<>>]
       \/ /\ heap = <<Checkpoint.Position>>
          /\ state = [Cash |-> Checkpoint.Cash, RealizedPnL |-> Checkpoint.RealizedPnL,
                      Positions |-> (positionKey("BTC", "long") :> 1)]
    /\ last = [op |-> "NewAccount"]
    /\ nops = 0
    /\ NoMetrics
    /\ NoManager
    /\ NoRunner
    /\ NoRetry

NextState ==
    \/ CallOpen
    \/ CallClose
    \/ CallTotalEquity
    \/ CallCheckLiquidation
    \/ CallSaveToState
    \/ CallRestoreFromState
    \/ MutateState

SpecState == InitState /\ [][NextState]_vars

\* the float64 nearest to an amount of the account
FloatOfRat(x) == FDiv(FloatOf(x[1]), FloatOf(x[2]))

\* all sequences over S of length at most n
SeqsUpTo(S, n) == UNION {[1 .. k -> S] : k \in 0 .. n}

\* inputs of CalculateMetrics: equity values, equity curves, trade logs
Equities == {64, 80, 100, 125}

EquityCurves == SeqsUpTo({[Equity |-> FloatOf(v)] : v \in Equities}, MaxCurve)

PnLs == {-1, 0, 2}

\* the fields of a TradeEvent that CalculateMetrics reads
TradeEvents ==
    [Symbol : {"BTC", "ETH"}, Side : Sides, Action : {"close", "liquidated"},
     RealizedPnL : {FloatOf(p) : p \in PnLs}, Fee : {FloatOf(1)}]

TradeLogs == SeqsUpTo(TradeEvents, MaxTrades)

\* metrics := CalculateMetrics(initialBalance, equityCurve, trades)
CallCalculateMetrics ==
    /\ last.op # "CalculateMetrics"
    /\ metrics' = CalculateMetrics(FloatOfRat(run.initialBalance), equityCurve, trades)
    /\ last' = [op |-> "CalculateMetrics"]
    /\ UNCHANGED <<accountVars, equityCurve, trades, managerVars, loop, retry>>

\* an equity curve without trades, or a trade log with an empty or a
\* one-point curve
InitMetrics ==
    /\ NewAccount(CheckpointRun)
    /\ NoManager
    /\ NoRunner
    /\ NoRetry
    /\ metrics = EmptyMetrics
    /\ \/ equityCurve \in EquityCurves /\ trades = <<>>
       \/ equityCurve \in SeqsUpTo({[Equity |-> FloatOf(100)]}, 1) /\ trades \in TradeLogs

NextMetrics == CallCalculateMetrics

SpecMetrics == InitMetrics /\ [][NextMetrics]_vars

\* the first step of a call by thread t
Begins(t) == calls[t] = IdleCall /\ ncalls < MaxCalls

\* faulty variant: the ID counts as present only once its cancel is registered
Exists_Registered(id) == id \in DOMAIN cancels

\* _, exists := m.runners[cfg.RunID]
Exists(id) == id \in DOMAIN runners

\* Start, the critical section: reject a present ID, else create and
\* register the Runner and its metadata snapshot
StartLocked(t) ==
    /\ Begins(t)
    /\ \E cfgID \in CfgRunIDs :
          \E id \in (IF cfgID = "" THEN GeneratedIDs ELSE {cfgID}) :
             IF Exists(id)
             THEN /\ last' = [op |-> "Start", id |-> id, ret |-> "AlreadyExists"]
                  /\ ncalls' = ncalls + 1
                  /\ UNCHANGED <<runners, metadata, cancels, objs, tasks, calls, hist>>
             ELSE /\ objs' = Append(objs, NewRunner(id))
                  /\ hist' = Append(hist, [returned |-> FALSE, deleted |-> FALSE, stopped |-> FALSE])
                  /\ runners' = (id :> (Len(objs) + 1)) @@ runners
                  /\ metadata' = (id :> GetMetadata(NewRunner(id))) @@ metadata
                  /\ calls' = [calls EXCEPT ![t] = [pc |-> "go", id |-> id,
                                                    runner |-> Len(objs) + 1]]
                  /\ last' = [op |-> "Start", id |-> id, ret |-> "nil"]
                  /\ ncalls' = ncalls + 1
                  /\ UNCHANGED <<cancels, tasks>>
    /\ UNCHANGED <<accountVars, metricsVars, loop, retry>>

\* Start, the go statement and the return of the run ID
StartGo(t) ==
    /\ calls[t].pc = "go"
    /\ tasks' = Append(tasks, [runner |-> calls[t].runner, pc |-> "register",
                               done |-> FALSE])
    /\ hist' = [hist EXCEPT ![calls[t].runner].returned = TRUE]
    /\ calls' = [calls EXCEPT ![t] = IdleCall]
    /\ UNCHANGED <<runners, metadata, cancels, objs, ncalls, last, accountVars, metricsVars, loop, retry>>

\* the background task: runCtx, cancel := context.WithCancel(ctx);
\* m.cancels[cfg.RunID] = cancel
TaskRegister(k) ==
    /\ tasks[k].pc = "register"
    /\ cancels' = (objs[tasks[k].runner].RunID :> k) @@ cancels
    /\ tasks' = [tasks EXCEPT ![k].pc = "start"]
    /\ UNCHANGED <<runners, metadata, objs, calls, ncalls, hist, last, accountVars, metricsVars, loop, retry>>

\* Runner.Start(runCtx) begins: the run is Running
RunnerStart(k) ==
    /\ tasks[k].pc = "start"
    /\ objs' = [objs EXCEPT ![tasks[k].runner].Status = StatusRunning]
    /\ tasks' = [tasks EXCEPT ![k].pc = "loop"]
    /\ UNCHANGED <<runners, metadata, cancels, calls, ncalls, hist, last, accountVars, metricsVars, loop, retry>>

\* the status a Running run takes at a cycle boundary, if it ends there
\* faulty variant: a cancelled run is Pending again
EndStatus_Requeued(runner, ctxDone) ==
    IF ctxDone THEN StatusPending
    ELSE IF runner.Klines = 0 THEN StatusFailed
    ELSE IF runner.Cycle >= runner.Klines THEN StatusCompleted
    ELSE StatusRunning

EndStatus(runner, ctxDone) ==
    IF ctxDone THEN StatusCancelled
    ELSE IF runner.Klines = 0 THEN StatusFailed
    ELSE IF runner.Cycle >= runner.Klines THEN StatusCompleted
    ELSE StatusRunning

\* one cycle of the loop: the account is updated, the cycle's trade events
\* and its equity point are appended, the clock advances
RunCycle(runner) ==
    [runner EXCEPT !.Cycle = @ + 1, !.Trades = @ + 1, !.EquityPoints = @ + 1]

\* Runner.Start at a cycle boundary: the run ends (cancelled, failed for
\* want of candles, or completed) or runs its next cycle
RunnerLoop(k) ==
    /\ tasks[k].pc = "loop"
    /\ \E r \in {tasks[k].runner} :
          \E s \in {EndStatus(objs[r], tasks[k].done)} :
             IF s = StatusRunning
             THEN /\ objs' = [objs EXCEPT ![r] = RunCycle(@)]
                  /\ UNCHANGED tasks
             ELSE /\ objs' = [objs EXCEPT ![r].Status = s]
                  /\ tasks' = [tasks EXCEPT ![k].pc = "update"]
    /\ UNCHANGED <<runners, metadata, cancels, calls, ncalls, hist, last, accountVars, metricsVars, loop, retry>>

\* the background task after Runner.Start returned:
\* m.metadata[cfg.RunID] = runner.GetMetadata()
TaskUpdate(k) ==
    /\ tasks[k].pc = "update"
    /\ metadata' = (objs[tasks[k].runner].RunID :> GetMetadata(objs[tasks[k].runner]))
                       @@ metadata
    /\ tasks' = [tasks EXCEPT ![k].pc = "done"]
    /\ UNCHANGED <<runners, cancels, objs, calls, ncalls, hist, last, accountVars, metricsVars, loop, retry>>

\* the run of the ID is the Runner at r and its status is Running
Running(id, r) == Exists(id) /\ runners[id] = r /\ objs[r].Status = StatusRunning

\* Stop, the read of m.cancels under the read lock; an unknown ID returns
StopRead(t) ==
    /\ Begins(t)
    /\ \E id \in RunIDs :
          IF id \in DOMAIN cancels
          THEN /\ calls' = [calls EXCEPT ![t] = [pc |-> "cancel", id |-> id,
                                                 cancel |-> cancels[id]]]
               /\ last' = [op |-> "Stop", id |-> id, ret |-> "nil"]
          ELSE /\ last' = [op |-> "Stop", id |-> id, ret |-> "NotFound"]
               /\ UNCHANGED calls
    /\ ncalls' = ncalls + 1
    /\ UNCHANGED <<runners, metadata, cancels, objs, tasks, hist, accountVars, metricsVars, loop, retry>>

\* Stop, cancel(): the context of the task that registered the function is done
StopCancel(t) ==
    /\ calls[t].pc = "cancel"
    /\ tasks' = [tasks EXCEPT ![calls[t].cancel].done = TRUE]
    /\ calls' = [calls EXCEPT ![t] = IdleCall]
    /\ hist' = [r \in DOMAIN hist |->
                  IF Running(calls[t].id, r) THEN [hist[r] EXCEPT !.stopped = TRUE]
                  ELSE hist[r]]
    /\ UNCHANGED <<runners, metadata, cancels, objs, ncalls, last, accountVars, metricsVars, loop, retry>>

\* meta.Status == StatusRunning refuses the deletion
Deletable(runner) == GetMetadata(runner).Status # StatusRunning

\* Delete, all of it under the lock
Delete(t) ==
    /\ Begins(t)
    /\ \E id \in RunIDs :
          IF ~Exists(id)
          THEN /\ last' = [op |-> "Delete", id |-> id, ret |-> "NotFound"]
               /\ UNCHANGED <<runners, metadata, cancels, hist>>
          ELSE IF ~Deletable(objs[runners[id]])
          THEN /\ last' = [op |-> "Delete", id |-> id, ret |-> "CannotDeleteRunning"]
               /\ UNCHANGED <<runners, metadata, cancels, hist>>
          ELSE /\ runners' = Restrict(runners, DOMAIN runners \ {id})
               /\ metadata' = Restrict(metadata, DOMAIN metadata \ {id})
               /\ cancels' = Restrict(cancels, DOMAIN cancels \ {id})
               /\ hist' = [hist EXCEPT ![runners[id]].deleted = TRUE]
               /\ last' = [op |-> "Delete", id |-> id, ret |-> "nil"]
    /\ ncalls' = ncalls + 1
    /\ UNCHANGED <<objs, tasks, calls, accountVars, metricsVars, loop, retry>>

\* what a query returns for a known run
QueryResult(op, runner) ==
    CASE op = "GetStatus" -> GetMetadata(runner)
      [] op = "GetTrades" -> runner.Trades
      [] op = "GetEquityCurve" -> runner.EquityPoints

\* GetStatus, GetTrades, GetEquityCurve: a snapshot of the Runner that
\* m.runners holds for the ID, under the read lock
Query(t) ==
    /\ Begins(t)
    /\ \E id \in RunIDs, op \in {"GetStatus", "GetTrades", "GetEquityCurve"} :
          IF Exists(id)
          THEN last' = [op |-> op, id |-> id, ret |-> "nil", runner |-> runners[id],
                        value |-> QueryResult(op, objs[runners[id]])]
          ELSE last' = [op |-> op, id |-> id, ret |-> "NotFound"]
    /\ ncalls' = ncalls + 1
    /\ UNCHANGED <<runners, metadata, cancels, objs, tasks, calls, hist, accountVars, metricsVars, loop, retry>>

\* LoadKlines: the candles are handed to the Runner that m.runners holds
LoadKlines(t) ==
    /\ Begins(t)
    /\ \E id \in RunIDs, n \in KlineCounts :
          IF Exists(id)
          THEN /\ objs' = [objs EXCEPT ![runners[id]].Klines = n]
               /\ last' = [op |-> "LoadKlines", id |-> id, ret |-> "nil"]
          ELSE /\ last' = [op |-> "LoadKlines", id |-> id, ret |-> "NotFound"]
               /\ UNCHANGED objs
    /\ ncalls' = ncalls + 1
    /\ UNCHANGED <<runners, metadata, cancels, tasks, calls, hist, accountVars, metricsVars, loop, retry>>

\* NewManager(client), with an account that no action of the Manager uses
InitManager ==
    /\ NewAccount(CheckpointRun)
    /\ NoMetrics
    /\ NoManager
    /\ NoRunner
    /\ NoRetry

NextManager ==
    \/ \E t \in Threads : StartLocked(t)
    \/ \E t \in Threads : StartGo(t)
    \/ \E t \in Threads : StopRead(t)
    \/ \E t \in Threads : StopCancel(t)
    \/ \E t \in Threads : Delete(t)
    \/ \E t \in Threads : Query(t)
    \/ \E t \in Threads : LoadKlines(t)
    \/ \E k \in DOMAIN tasks : TaskRegister(k)
    \/ \E k \in DOMAIN tasks : RunnerStart(k)
    \/ \E k \in DOMAIN tasks : RunnerLoop(k)
    \/ \E k \in DOMAIN tasks : TaskUpdate(k)

SpecManager == InitManager /\ [][NextManager]_vars

\* the scheduler runs every goroutine that can take a step, and a call that
\* has begun returns
FairManager ==
    /\ \A t \in Threads : WF_vars(StartGo(t)) /\ WF_vars(StopCancel(t))
    /\ \A k \in 1 .. MaxCalls :
          /\ WF_vars(k \in DOMAIN tasks /\ TaskRegister(k))
          /\ WF_vars(k \in DOMAIN tasks /\ RunnerStart(k))
          /\ WF_vars(k \in DOMAIN tasks /\ RunnerLoop(k))
          /\ WF_vars(k \in DOMAIN tasks /\ TaskUpdate(k))

SpecManagerFair == SpecManager /\ FairManager

(***************************************************************************)
(* Properties                                                              *)
(***************************************************************************)
\* every position of the account, by value
PositionsView == [k \in DOMAIN positions |-> heap[positions[k]]]

\* the State a caller holds, by value
StateView ==
    [Cash |-> state.Cash, RealizedPnL |-> state.RealizedPnL,
     Positions |-> [k \in DOMAIN state.Positions |-> heap[state.Positions[k]]]]

\* the fill price, notional, margin and fee of an Open as the specification
\* defines them (l: the record of the call)
FillOfOpen(l) ==
    IF l.side = "long" THEN Times(l.price, Plus(One, slippageRate))
    ELSE Times(l.price, Minus(One, slippageRate))
NotionalOfOpen(l) == Times(FillOfOpen(l), l.quantity)
MarginOfOpen(l) ==
    Over(NotionalOfOpen(l), FromInt(IF l.leverage <= 0 THEN 1 ELSE l.leverage))
FeeOfOpen(l) == Times(NotionalOfOpen(l), feeRate)

OpenSucceeded(l) == l.op = "Open" /\ l.err = "nil"

\* C1: a successful Open takes exactly margin + fee from cash, margin + fee
\* never exceeds the cash before the call, and a non-negative cash balance
\* stays non-negative.
C1_OpenDebitsMarginAndFee ==
    [][OpenSucceeded(last') =>
          \E margin \in {MarginOfOpen(last')}, fee \in {FeeOfOpen(last')} :
              /\ last'.execPrice = FillOfOpen(last')
              /\ last'.fee = fee
              /\ cash' = Minus(Minus(cash, margin), fee)
              /\ LessEq(Plus(margin, fee), cash)
              /\ (GreaterEq(cash, Zero) => GreaterEq(cash', Zero))]_vars

\* a successful Open that paid a fee, with a coerced or a real leverage
C1_Witness ==
    /\ OpenSucceeded(last)
    /\ Greater(last.fee, Zero)
    /\ Less(cash, Minus(last.cashBefore, last.fee))

\* C2: a rejected Open (quantity <= 0, or margin + fee above cash) and a
\* rejected Close (no position for the key) return the error and leave cash,
\* realized P&L and every position as they were.
C2_RejectedCallChangesNothing ==
    [][/\ (last'.op = "Open" /\ LessEq(last'.quantity, Zero))
             => last'.err = "InvalidQuantity"
       /\ (last'.op = "Open" /\ Greater(last'.quantity, Zero))
             => \E required \in {Plus(MarginOfOpen(last'), FeeOfOpen(last'))} :
                    Greater(required, cash) => last'.err = "InsufficientFunds"
       /\ (last'.op = "Close" /\ positionKey(last'.symbol, last'.side) \notin DOMAIN positions)
             => last'.err = "PositionNotFound"
       /\ (last'.op \in {"Open", "Close"} /\ last'.err # "nil")
             => /\ cash' = cash
                /\ realizedPnL' = realizedPnL
                /\ PositionsView' = PositionsView]_vars

\* an Open rejected for lack of cash while the account holds a position
C2_Witness ==
    /\ last.op = "Open"
    /\ last.err = "InsufficientFunds"
    /\ positions # <<>>
    /\ Greater(cash, Zero)

\* C3: an Open into an existing position gives the quantity-weighted average
\* entry and the summed quantity, and adds the margin, notional and fee of
\* the new open to those of the position.
C3_AddAveragesEntry ==
    [][(OpenSucceeded(last') /\ positionKey(last'.symbol, last'.side) \in DOMAIN positions) =>
          \E key \in {positionKey(last'.symbol, last'.side)} :
          \E old \in {heap[positions[key]]}, e2 \in {last'.execPrice}, q2 \in {last'.quantity} :
              /\ key \in DOMAIN positions'
              /\ \E new \in {heap'[positions'[key]]} :
                    /\ new.EntryPrice =
                           Over(Plus(Times(old.EntryPrice, old.Quantity), Times(e2, q2)),
                                Plus(old.Quantity, q2))
                    /\ new.Quantity = Plus(old.Quantity, q2)
                    /\ new.Margin = Plus(old.Margin, MarginOfOpen(last'))
                    /\ new.Notional = Plus(old.Notional, NotionalOfOpen(last'))
                    /\ new.AccumulatedFee = Plus(old.AccumulatedFee, FeeOfOpen(last'))]_vars

\* an add of a different quantity at a different price than the position had
C3_Witness ==
    /\ OpenSucceeded(last)
    /\ last.hadPosition
    /\ LET pos == heap[positions[positionKey(last.symbol, last.side)]]
       IN  /\ pos.EntryPrice # last.execPrice
           /\ Minus(pos.Quantity, last.quantity) # last.quantity

CloseSucceeded(l) == l.op = "Close" /\ l.err = "nil"

\* the quantity a Close of the requested quantity takes from position pos
ClosedQuantity(l, pos) ==
    IF LessEq(l.quantity, Zero) \/ Greater(l.quantity, pos.Quantity) THEN pos.Quantity
    ELSE l.quantity

\* C4: a Close of the full quantity removes the key; a Close of a fraction f
\* of the quantity, at any price, multiplies quantity, margin, notional and
\* accumulated fee by (1 - f) and keeps entry price and leverage.
C4_PartialCloseShrinksProportionally ==
    [][CloseSucceeded(last') =>
          \E key \in {positionKey(last'.symbol, last'.side)} :
          \E old \in {heap[positions[key]]} :
          \E q \in {ClosedQuantity(last', old)} :
          \E keep \in {Minus(One, Over(q, old.Quantity))} :
              IF q = old.Quantity
              THEN key \notin DOMAIN positions'
              ELSE /\ key \in DOMAIN positions'
                   /\ \E new \in {heap'[positions'[key]]} :
                          /\ new.Quantity = Times(old.Quantity, keep)
                          /\ new.Margin = Times(old.Margin, keep)
                          /\ new.Notional = Times(old.Notional, keep)
                          /\ new.AccumulatedFee = Times(old.AccumulatedFee, keep)
                          /\ new.EntryPrice = old.EntryPrice
                          /\ new.Leverage = old.Leverage]_vars

\* the run of the worked scenario: balance 1000, fee 4 bps, no slippage
ScenarioRun ==
    /\ run.initialBalance = FromInt(1000)
    /\ run.feeBps = FromInt(4)
    /\ run.slippageBps = Zero

\* C5: a successful Close of quantity q at fill price p returns
\* gross - closing fee - F*q/Q, adds exactly that to the realized P&L and
\* adds M*q/Q + gross - closing fee to cash; in the worked scenario the
\* open gives margin 50, fee 0.2, cash 949.8, liquidation price 45000 and
\* the close at 55000 gives net 49.58, cash 1049.58, realized P&L 49.58.
C5_CloseRealizesNetPnL ==
    [][/\ CloseSucceeded(last') =>
             \E pos \in {heap[positions[positionKey(last'.symbol, last'.side)]]} :
             \E q \in {ClosedQuantity(last', pos)}, p \in {last'.execPrice} :
             \E gross \in {IF last'.side = "long"
                           THEN Times(Minus(p, pos.EntryPrice), q)
                           ELSE Times(Minus(pos.EntryPrice, p), q)},
                closeFee \in {Times(Times(p, q), feeRate)},
                openShare \in {Over(Times(pos.AccumulatedFee, q), pos.Quantity)},
                marginShare \in {Over(Times(pos.Margin, q), pos.Quantity)} :
                 /\ last'.realized = Minus(Minus(gross, closeFee), openShare)
                 /\ last'.fee = Plus(closeFee, openShare)
                 /\ realizedPnL' = Plus(realizedPnL, last'.realized)
                 /\ cash' = Minus(Plus(Plus(cash, marginShare), gross), closeFee)
       /\ (ScenarioRun /\ nops = 0 /\ last'.op = "Open" /\ last'.side = "long"
             /\ last'.quantity = Rat(1, 100) /\ last'.leverage = 10
             /\ last'.price = FromInt(50000)) =>
             /\ last'.err = "nil"
             /\ last'.fee = Rat(2, 10)
             /\ cash' = Rat(9498, 10)
             /\ \E pos \in {heap'[positions'[positionKey(last'.symbol, "long")]]} :
                    /\ pos.Margin = FromInt(50)
                    /\ pos.LiquidationPrice = FromInt(45000)
       /\ (ScenarioRun /\ nops = 1 /\ OpenSucceeded(last) /\ last.side = "long"
             /\ last.price = FromInt(50000)
             /\ last'.op = "Close" /\ last'.side = "long"
             /\ last'.price = FromInt(55000)) =>
             /\ last'.err = "nil"
             /\ last'.realized = Rat(4958, 100)
             /\ last'.fee = Rat(42, 100)
             /\ cash' = Rat(104958, 100)
             /\ realizedPnL' = Rat(4958, 100)
             /\ positions' = <<>>]_vars

\* the end of the worked scenario: opened at 50000, closed at 55000
C5_Witness ==
    /\ ScenarioRun
    /\ nops = 2
    /\ CloseSucceeded(last)
    /\ last.price = FromInt(55000)
    /\ cash = Rat(104958, 100)
    /\ realizedPnL = Rat(4958, 100)

RECURSIVE SumOf(_, _)
SumOf(f, S) ==
    IF S = {} THEN Zero
    ELSE LET x == CHOOSE y \in S : TRUE IN Plus(f[x], SumOf(f, S \ {x}))

\* unrealized P&L of position pos under price map pm
UnrealizedAt(pos, pm) ==
    LET price == IF pos.Symbol \in DOMAIN pm THEN pm[pos.Symbol] ELSE pos.EntryPrice
    IN  IF pos.Side = "long"
        THEN Times(Minus(price, pos.EntryPrice), pos.Quantity)
        ELSE Times(Minus(pos.EntryPrice, price), pos.Quantity)

\* C6: TotalEquity returns cash + sum of margins + sum of unrealized P&L,
\* marking a position without a quote at its entry price; with no position
\* it returns equity = cash and unrealized = 0; it changes nothing.
C6_TotalEquityIsCashMarginUnrealized ==
    [][last'.op = "TotalEquity" =>
          \E pnl \in {[k \in DOMAIN positions |->
                          UnrealizedAt(heap[positions[k]], last'.priceMap)]},
             margins \in {[k \in DOMAIN positions |-> heap[positions[k]].Margin]} :
              /\ last'.unrealized = SumOf(pnl, DOMAIN positions)
              /\ last'.equity = Plus(Plus(cash, SumOf(margins, DOMAIN positions)),
                                     SumOf(pnl, DOMAIN positions))
              /\ (positions = <<>> => last'.equity = cash /\ last'.unrealized = Zero)
              /\ cash' = cash
              /\ realizedPnL' = realizedPnL
              /\ PositionsView' = PositionsView]_vars

\* TotalEquity over a quoted and an unquoted position, with a P&L
C6_Witness ==
    /\ last.op = "TotalEquity"
    /\ \E k1, k2 \in DOMAIN positions :
          /\ PositionsView[k1].Symbol \in DOMAIN last.priceMap
          /\ PositionsView[k2].Symbol \notin DOMAIN last.priceMap
    /\ last.unrealized # Zero

\* C7: with zero fee and slippage, the P&L of every position at its stored
\* liquidation price is minus its margin.
C7_LossAtLiquidationPriceIsMargin ==
    (feeRate = Zero /\ slippageRate = Zero) =>
        \A k \in DOMAIN positions :
            LET pos == PositionsView[k]
            IN  IF pos.Side = "long"
                THEN Times(Minus(pos.LiquidationPrice, pos.EntryPrice), pos.Quantity)
                         = Neg(pos.Margin)
                ELSE Times(Minus(pos.EntryPrice, pos.LiquidationPrice), pos.Quantity)
                         = Neg(pos.Margin)

\* position pos is in breach under price map pm
InBreach(pos, pm) ==
    /\ pos.Symbol \in DOMAIN pm
    /\ IF pos.Side = "long" THEN LessEq(pm[pos.Symbol], pos.LiquidationPrice)
       ELSE GreaterEq(pm[pos.Symbol], pos.LiquidationPrice)

\* C8: CheckLiquidation liquidates exactly the positions whose symbol is
\* quoted at or beyond their liquidation price; each is closed in full by
\* Close at its liquidation price, is gone afterwards and yields exactly one
\* event with the liquidation flag, the full quantity and the fee and
\* realized P&L Close returned; the other positions are unchanged and no
\* error is returned.
C8_LiquidatesExactlyBreachedPositions ==
    [][last'.op = "CheckLiquidation" =>
          \E pm \in {last'.priceMap}, events \in {last'.events} :
          \E L \in {{k \in DOMAIN positions : InBreach(heap[positions[k]], pm)}} :
          \E closes \in {[k \in L |->
                            Close(Acct, heap[positions[k]].Symbol, heap[positions[k]].Side,
                                  heap[positions[k]].Quantity,
                                  heap[positions[k]].LiquidationPrice)]} :
              /\ last'.err = "nil"
              /\ DOMAIN positions' = DOMAIN positions \ L
              /\ \A k \in DOMAIN positions' : heap'[positions'[k]] = heap[positions[k]]
              /\ Len(events) = Cardinality(L)
              /\ \A i \in 1 .. Len(events) : events[i].LiquidationFlag
              /\ \A k \in L :
                    \E pos \in {heap[positions[k]]} :
                    \E E \in {{i \in 1 .. Len(events) :
                                  events[i].Symbol = pos.Symbol /\ events[i].Side = pos.Side}} :
                        /\ Cardinality(E) = 1
                        /\ \A i \in E :
                              /\ events[i].Quantity = pos.Quantity
                              /\ events[i].Fee = closes[k].fee
                              /\ events[i].RealizedPnL = closes[k].realized
                              /\ events[i].Price = closes[k].execPrice
              /\ cash' = Plus(cash, SumOf([k \in L |-> Minus(closes[k].a.cash, cash)], L))
              /\ realizedPnL' =
                     Plus(realizedPnL, SumOf([k \in L |-> closes[k].realized], L))]_vars

\* a check that liquidated one position and left another one open
C8_Witness ==
    /\ last.op = "CheckLiquidation"
    /\ Len(last.events) >= 1
    /\ positions # <<>>
    /\ \E i \in 1 .. Len(last.events) : last.events[i].Price # last.events[i].Note[1]

\* C9: with zero fee and slippage, opening quantity Q on a long key without
\* a position and closing quantity Q at the same price returns net realized
\* P&L 0, removes the position and restores cash and realized P&L.
C9_RoundTripRestoresAccount ==
    [][(/\ last'.op = "Close"
        /\ last'.roundTrip
        /\ last'.side = "long"
        /\ feeRate = Zero
        /\ slippageRate = Zero) =>
          /\ last'.err = "nil"
          /\ last'.realized = Zero
          /\ positionKey(last'.symbol, last'.side) \notin DOMAIN positions'
          /\ cash' = last.cashBefore
          /\ realizedPnL' = last.realizedPnLBefore]_vars

\* a round trip made while the account holds another position
C9_Witness ==
    /\ last.op = "Close"
    /\ last.roundTrip
    /\ last.side = "long"
    /\ feeRate = Zero
    /\ slippageRate = Zero
    /\ positions # <<>>
    /\ Less(cash, run.initialBalance)

\* the account, by value
AccountView == [cash |-> cash, realizedPnL |-> realizedPnL, positions |-> PositionsView]

\* C10: SaveToState and RestoreFromState copy by value: no call on the
\* account changes the saved State, no write to the State changes the
\* account, a save leaves the account and a restore leaves the State as
\* they were, and each makes the target equal to the source.
C10_SaveRestoreCopyByValue ==
    [][/\ last'.op \in {"Open", "Close", "CheckLiquidation", "TotalEquity"}
             => StateView' = StateView
       /\ last'.op = "MutateState" => AccountView' = AccountView
       /\ last'.op = "SaveToState"
             => /\ AccountView' = AccountView
                /\ StateView' = [Cash |-> cash, RealizedPnL |-> realizedPnL,
                                 Positions |-> PositionsView]
       /\ last'.op = "RestoreFromState"
             => /\ StateView' = StateView
                /\ AccountView' = [cash |-> state.Cash, realizedPnL |-> state.RealizedPnL,
                                   positions |-> StateView.Positions]]_vars

\* a partial Close of a position restored from the checkpoint, which the
\* checkpoint still holds in full
C10_Witness ==
    /\ CloseSucceeded(last)
    /\ \E k \in DOMAIN positions \cap DOMAIN state.Positions :
          /\ PositionsView[k].OpenTime = Checkpoint.Position.OpenTime
          /\ StateView.Positions[k] = Checkpoint.Position
          /\ Less(PositionsView[k].Quantity, Checkpoint.Position.Quantity)

(***************************************************************************)
(* Properties of CalculateMetrics                                          *)
(***************************************************************************)
MetricsComputed == last.op = "CalculateMetrics"

\* the trades of symbol s that the statistics count, and the winners among them
CountedOf(log, s) == SelectSeq(log, LAMBDA t : ~Skipped(t) /\ t.Symbol = s)

WinnersOf(log, s) == SelectSeq(CountedOf(log, s), LAMBDA t : FGreater(t.RealizedPnL, FZero))

\* C11: for every trade log (also with trades on two or more symbols) the
\* per-symbol WinRate of symbol S is (counted winning trades of S) /
\* (counted trades of S) x 100, for every symbol with a counted trade.
C11_PerSymbolWinRate ==
    (MetricsComputed /\ Len(equityCurve) > 0) =>
        /\ DOMAIN metrics.SymbolStats =
               {s \in {t.Symbol : t \in TradeEvents} : Len(CountedOf(trades, s)) > 0}
        /\ \A s \in DOMAIN metrics.SymbolStats :
               metrics.SymbolStats[s].WinRate =
                   Percent(FDiv(FloatOf(Len(WinnersOf(trades, s))),
                                FloatOf(Len(CountedOf(trades, s)))))

\* the running peak at point i and the drawdown fraction there
RunningPeak(curve, i) == max([j \in 1 .. i |-> curve[j].Equity])

DrawdownAt(curve, i) ==
    FDiv(FSub(RunningPeak(curve, i), curve[i].Equity), RunningPeak(curve, i))

WorstDrawdown(curve) == max([i \in 1 .. Len(curve) |-> DrawdownAt(curve, i)])

\* C12: for every non-empty curve of positive values MaxDrawdownPct is
\* 100 x the largest drawdown fraction (runningPeak - equity) / runningPeak,
\* and the absolute MaxDrawdown is that fraction times the running peak at
\* a point where the largest drawdown occurred, also when the curve later
\* rises to a higher peak.
C12_MaxDrawdownAtItsPeak ==
    (MetricsComputed /\ Len(equityCurve) > 0) =>
        /\ metrics.MaxDrawdownPct = Percent(WorstDrawdown(equityCurve))
        /\ \E i \in 1 .. Len(equityCurve) :
               /\ DrawdownAt(equityCurve, i) = WorstDrawdown(equityCurve)
               /\ metrics.MaxDrawdown =
                      FMul(RunningPeak(equityCurve, i), WorstDrawdown(equityCurve))

Flat(curve) == \A i \in 1 .. Len(curve) : curve[i] = curve[1]

EqualReturns(curve) ==
    \A i, j \in 1 .. (Len(curve) - 1) : Returns(curve)[i] = Returns(curve)[j]

NoNegativeReturn(curve) ==
    \A i \in 1 .. (Len(curve) - 1) : ~FLess(Returns(curve)[i], FZero)

\* C13 as stated: on a flat curve SharpeRatio and MaxDrawdownPct are 0;
\* SharpeRatio is 0 whenever the curve has fewer than 2 points or all
\* per-step returns are equal; SortinoRatio is 0 whenever no per-step
\* return is negative.
C13_ZeroSharpeOnEqualReturns ==
    MetricsComputed =>
        /\ (Len(equityCurve) >= 1 /\ Flat(equityCurve)) =>
               (metrics.SharpeRatio = FZero /\ metrics.MaxDrawdownPct = FZero)
        /\ (Len(equityCurve) < 2 \/ EqualReturns(equityCurve)) =>
               metrics.SharpeRatio = FZero
        /\ NoNegativeReturn(equityCurve) => metrics.SortinoRatio = FZero

\* the float64 mean of the returns is the common return itself
ExactMean(curve) == mean(Returns(curve)) = Returns(curve)[1]

\* C13: on a flat curve SharpeRatio and MaxDrawdownPct are 0; SharpeRatio
\* is 0 whenever the curve has fewer than 2 points, or all per-step returns
\* are equal and there are at most two of them, or all per-step returns are
\* equal and their float64 mean is that return; SortinoRatio is 0 whenever
\* no per-step return is negative.
C13_ZeroSharpeOnExactMean ==
    MetricsComputed =>
        /\ (Len(equityCurve) >= 1 /\ Flat(equityCurve)) =>
               (metrics.SharpeRatio = FZero /\ metrics.MaxDrawdownPct = FZero)
        /\ Len(equityCurve) < 2 => metrics.SharpeRatio = FZero
        /\ (EqualReturns(equityCurve) /\ Len(equityCurve) <= 3) =>
               metrics.SharpeRatio = FZero
        /\ (Len(equityCurve) >= 2 /\ EqualReturns(equityCurve) /\ ExactMean(equityCurve)) =>
               metrics.SharpeRatio = FZero
        /\ NoNegativeReturn(equityCurve) => metrics.SortinoRatio = FZero

\* metrics of a rising curve of three points with two equal non-zero returns
C13_Witness ==
    /\ MetricsComputed
    /\ Len(equityCurve) = 3
    /\ ~Flat(equityCurve)
    /\ EqualReturns(equityCurve)
    /\ NoNegativeReturn(equityCurve)
    /\ metrics.SharpeRatio = FZero
    /\ metrics.SortinoRatio = FZero
    /\ metrics.FinalEquity = equityCurve[3].Equity

WinSum(log) ==
    sum([i \in 1 .. Len(SelectSeq(log, LAMBDA t : ~Skipped(t) /\ FGreater(t.RealizedPnL, FZero))) |->
            SelectSeq(log, LAMBDA t : ~Skipped(t) /\ FGreater(t.RealizedPnL, FZero))[i].RealizedPnL])

LossSum(log) ==
    sum([i \in 1 .. Len(SelectSeq(log, LAMBDA t : ~Skipped(t) /\ FLess(t.RealizedPnL, FZero))) |->
            SelectSeq(log, LAMBDA t : ~Skipped(t) /\ FLess(t.RealizedPnL, FZero))[i].RealizedPnL])

\* the profit factors of the logs whose losses sum to a non-zero amount
ProfitFactorsWithLosses ==
    {CalculateMetrics(FloatOf(100), <<[Equity |-> FloatOf(100)]>>, log).ProfitFactor :
        log \in {l \in TradeLogs : LossSum(l) # FZero}}

\* C14 as stated: ProfitFactor is (sum of winning P&L) / |sum of losing P&L|
\* whenever the losses sum to a non-zero amount; when the losses sum to zero
\* and the wins are positive it is a sentinel that no log with non-zero
\* losses produces.
C14_ProfitFactorSentinel ==
    (MetricsComputed /\ Len(equityCurve) > 0) =>
        /\ LossSum(trades) # FZero =>
               metrics.ProfitFactor = FDiv(WinSum(trades), FAbs(LossSum(trades)))
        /\ (LossSum(trades) = FZero /\ FGreater(WinSum(trades), FZero)) =>
               metrics.ProfitFactor \notin ProfitFactorsWithLosses

\* C14: on a non-empty equity curve ProfitFactor is (sum of winning P&L) /
\* |sum of losing P&L| whenever the losses sum to a non-zero amount, and 0
\* when the losses sum to zero, whatever the wins; on an empty equity curve
\* it is 0 for every trade log.
C14_ProfitFactorZeroWithoutLosses ==
    MetricsComputed =>
        /\ (Len(equityCurve) > 0 /\ LossSum(trades) # FZero) =>
               metrics.ProfitFactor = FDiv(WinSum(trades), FAbs(LossSum(trades)))
        /\ (Len(equityCurve) = 0 \/ LossSum(trades) = FZero) =>
               metrics.ProfitFactor = FZero

\* metrics of a log with wins and without losses, on a non-empty curve
C14_Witness ==
    /\ MetricsComputed
    /\ Len(equityCurve) > 0
    /\ LossSum(trades) = FZero
    /\ FGreater(WinSum(trades), FZero)
    /\ metrics.WinningTrades = 2
    /\ metrics.ProfitFactor = FZero

(***************************************************************************)
(* Runner: the simulation loop of one run, modelled from its               *)
(* specification (section 4.3); the account it owns is the account above.  *)
(* A cycle is a sequence of steps: the liquidation check against the       *)
(* candle's close prices, one step per decision acted on, the equity       *)
(* snapshot with the advance of the clock.  The context of the run can be  *)
(* cancelled at any moment; the loop looks at it between two cycles.       *)
(***************************************************************************)
\* the run configuration of the Runner: two symbols
RunnerRun == CHOOSE r \in Runs : Cardinality(r.symbols) > 1

\* the close prices of one candle: every loaded symbol has one
Candles == [RunnerRun.symbols -> RunnerRun.prices]

\* what the decision source returns for a symbol, after the risk controls:
\* nothing to do (no decision, a failure of the source, a decision the
\* controls reject), or an Open or a Close; the source of this run trades
\* the long side
Decisions ==
    {[action |-> "hold"]}
       \cup [action : {"open", "close"}, side : {"long"},
             quantity : RunnerRun.quantities, leverage : RunnerRun.leverages]

\* faulty variant: every symbol gets a decision call
Undecided_All(symbols, liquidated) == symbols

\* the symbols that get a decision call in a cycle: those without a
\* liquidation in this cycle
Undecided(symbols, liquidated) == symbols \ liquidated

\* the Runner begins: the run is Running, at its first cycle boundary
RunnerBegin ==
    /\ loop.status = StatusPending
    /\ loop' = [loop EXCEPT !.status = StatusRunning, !.phase = "boundary"]
    /\ last' = [op |-> "Start"]
    /\ UNCHANGED <<accountVars, metricsVars, managerVars, retry>>

\* the context of the run is cancelled
CancelContext ==
    /\ loop.status = StatusRunning
    /\ ~loop.ctxDone
    /\ loop' = [loop EXCEPT !.ctxDone = TRUE]
    /\ last' = [op |-> "cancel"]
    /\ UNCHANGED <<accountVars, metricsVars, managerVars, retry>>

\* a cycle boundary: the run ends, or the next candle is taken
RunnerBoundary ==
    /\ loop.status = StatusRunning
    /\ loop.phase = "boundary"
    /\ \E s \in {EndStatus([Klines |-> loop.klines, Cycle |-> loop.cycle], loop.ctxDone)} :
          IF s = StatusRunning
          THEN \E candle \in Candles :
                  loop' = [loop EXCEPT !.phase = "liquidation", !.candle = candle,
                                       !.cycle = @ + 1]
          ELSE loop' = [loop EXCEPT !.status = s, !.phase = "ended"]
    /\ last' = [op |-> "boundary"]
    /\ UNCHANGED <<accountVars, metricsVars, managerVars, retry>>

\* step 1 of a cycle: CheckLiquidation against the close prices; every
\* liquidation is a recorded TradeEvent
RunnerCheckLiquidation ==
    /\ loop.status = StatusRunning
    /\ loop.phase = "liquidation"
    /\ \E order \in Orders(DOMAIN positions) :
          \E r \in {CheckLiquidation(Acct, loop.candle, loop.cycle, loop.cycle, order)} :
          \E liquidated \in {{r.notes[i][1] : i \in DOMAIN r.notes}} :
             /\ CommitAccount(r.a, r.a.heap, state)
             /\ trades' = trades \o r.events
             /\ loop' = [loop EXCEPT !.phase = "decide", !.checked = loop.cycle,
                                     !.liquidated = liquidated,
                                     !.todo = Undecided(run.symbols, liquidated)]
             /\ last' = [op |-> "CheckLiquidation", priceMap |-> loop.candle,
                         events |-> r.events, notes |-> r.notes, err |-> r.err]
    /\ UNCHANGED <<nops, equityCurve, metrics, managerVars, retry>>

\* the TradeEvent of a decision acted on
DecisionEvent(symbol, d, price, fee, realized) ==
    [Timestamp |-> loop.cycle, Symbol |-> symbol, Action |-> d.action, Side |-> d.side,
     Quantity |-> d.quantity, Price |-> price, Fee |-> fee, RealizedPnL |-> realized,
     Leverage |-> d.leverage, Cycle |-> loop.cycle, LiquidationFlag |-> FALSE]

\* steps 2 to 4 of a cycle, for one symbol: the decision for the symbol is
\* translated into an Open or a Close at the close price, and its TradeEvent
\* is appended
RunnerDecide ==
    /\ loop.status = StatusRunning
    /\ loop.phase = "decide"
    /\ loop.todo # {}
    /\ \E symbol \in loop.todo, d \in Decisions :
          /\ loop' = [loop EXCEPT !.todo = @ \ {symbol}]
          /\ CASE d.action = "hold" ->
                    /\ last' = [op |-> "Hold", by |-> "decision", symbol |-> symbol,
                                cycle |-> loop.cycle]
                    /\ UNCHANGED <<cash, realizedPnL, positions, heap, state, run,
                                   feeRate, slippageRate, trades>>
               [] d.action = "open" ->
                    \E r \in {Open(Acct, symbol, d.side, d.quantity, d.leverage,
                                   loop.candle[symbol], loop.cycle)} :
                       /\ CommitAccount(r.a, r.a.heap, state)
                       /\ trades' = IF r.err = "nil"
                                    THEN Append(trades, DecisionEvent(symbol, d, r.execPrice,
                                                                      r.fee, Zero))
                                    ELSE trades
                       /\ last' = [op |-> "Open", by |-> "decision", symbol |-> symbol,
                                   side |-> d.side, cycle |-> loop.cycle, err |-> r.err]
               [] d.action = "close" ->
                    \E r \in {Close(Acct, symbol, d.side, Zero, loop.candle[symbol])} :
                       /\ CommitAccount(r.a, r.a.heap, state)
                       /\ trades' = IF r.err = "nil"
                                    THEN Append(trades, DecisionEvent(symbol, d, r.execPrice,
                                                                      r.fee, r.realized))
                                    ELSE trades
                       /\ last' = [op |-> "Close", by |-> "decision", symbol |-> symbol,
                                   side |-> d.side, cycle |-> loop.cycle, err |-> r.err]
    /\ UNCHANGED <<nops, equityCurve, metrics, managerVars, retry>>

\* steps 5 and 6 of a cycle: the equity snapshot is appended and the clock
\* advances to the next candle
RunnerSnapshot ==
    /\ loop.status = StatusRunning
    /\ loop.phase = "decide"
    /\ loop.todo = {}
    /\ \E order \in Orders(DOMAIN positions) :
          \E r \in {TotalEquity(Acct, loop.candle, order)} :
             /\ equityCurve' = Append(equityCurve, [Timestamp |-> loop.cycle,
                                                    Equity |-> r.equity, Cycle |-> loop.cycle])
             /\ last' = [op |-> "TotalEquity", priceMap |-> loop.candle, equity |-> r.equity,
                         unrealized |-> r.unrealized, perSymbol |-> r.perSymbol]
    /\ loop' = [loop EXCEPT !.phase = "boundary"]
    /\ UNCHANGED <<accountVars, trades, metrics, managerVars, retry>>

\* a Runner with its candles loaded, or with none
InitRunner ==
    /\ NewAccount(RunnerRun)
    /\ NoMetrics
    /\ NoManager
    /\ \E n \in {0, MaxKlines} : loop = NewLoop(n)
    /\ NoRetry

NextRunner ==
    \/ RunnerBegin
    \/ CancelContext
    \/ RunnerBoundary
    \/ RunnerCheckLiquidation
    \/ RunnerDecide
    \/ RunnerSnapshot

SpecRunner == InitRunner /\ [][NextRunner]_vars

(***************************************************************************)
(* Actions of a call of an AI client                                       *)
(***************************************************************************)
\* for attempt := 1; attempt <= maxRetries; attempt++ : the test of the
\* loop, and the return after the loop
RetryFor ==
    /\ retry.pc = "for"
    /\ IF retry.attempt <= retry.maxRetries
       THEN retry' = [retry EXCEPT !.pc = "attempt"]
       ELSE retry' = [retry EXCEPT !.pc = "return",
                                   !.ret = [result |-> 0,
                                            err |-> MaxRetriesExceeded(retry.lastErr)]]
    /\ UNCHANGED <<accountVars, last, metricsVars, managerVars, loop>>

\* if attempt < maxRetries { time.Sleep(...) }: where the loop goes after a
\* retryable error
AfterRetryable(attempt, limit) == IF attempt < limit THEN "sleep" ELSE "for"

\* the body of the loop up to the sleep: the attempt, the return of its
\* result or of its error when that is not retryable
RetryAttempt ==
    /\ retry.pc = "attempt"
    /\ \E outcome \in AttemptOutcomes :
          \E r \in {[retry EXCEPT !.outcomes = Append(@, outcome)]} :
             IF outcome = "ok"
             THEN retry' = [r EXCEPT !.pc = "return",
                                     !.ret = [result |-> retry.attempt, err |-> NilError]]
             ELSE IF ~isRetryableError(outcome)
             THEN retry' = [r EXCEPT !.pc = "return", !.lastErr = outcome,
                                     !.ret = [result |-> 0, err |-> AttemptError(outcome)]]
             ELSE retry' = [r EXCEPT !.lastErr = outcome,
                                     !.pc = AfterRetryable(retry.attempt, retry.maxRetries),
                                     !.attempt = IF AfterRetryable(retry.attempt, retry.maxRetries) = "sleep"
                                                 THEN @ ELSE @ + 1]
    /\ UNCHANGED <<accountVars, last, metricsVars, managerVars, loop>>

\* time.Sleep(backoff), then attempt++
RetrySleep ==
    /\ retry.pc = "sleep"
    /\ retry' = [retry EXCEPT !.sleeps = Append(@, Backoff(retry.fn, retry.attempt)),
                              !.attempt = @ + 1,
                              !.pc = "for"]
    /\ UNCHANGED <<accountVars, last, metricsVars, managerVars, loop>>

\* a call of one of the clients, with an account that the call does not use
InitRetry ==
    /\ NewAccount(CheckpointRun)
    /\ NoMetrics
    /\ NoManager
    /\ NoRunner
    /\ \E call \in ClientCalls : retry = NewRetry(call)

NextRetry ==
    \/ RetryFor
    \/ RetryAttempt
    \/ RetrySleep

SpecRetry == InitRetry /\ [][NextRetry]_vars

(***************************************************************************)
(* Properties of the Manager                                               *)
(***************************************************************************)
\* a step that begins a call op of the Manager
CallBegins(op) == ncalls' = ncalls + 1 /\ last'.op = op

\* the Runners created for a run ID whose run has not been deleted
LiveRunners(id) == {r \in DOMAIN objs : objs[r].RunID = id /\ ~hist[r].deleted}

\* the background tasks launched for a Runner
TasksOf(r) == {k \in DOMAIN tasks : tasks[k].runner = r}

\* C15: a Start with a run ID that is present returns AlreadyExists and
\* leaves the runner, metadata and cancel entries (and the Runners and their
\* tasks) unchanged; a Start with an absent ID succeeds and creates one
\* Runner; whatever the interleaving of the Start calls, an ID has exactly one
\* Runner that was created and not deleted when it is present and none when
\* it is not, and a Runner has exactly one background task once its Start
\* returned and none before.
C15_StartDuplicate ==
    [][/\ (CallBegins("Start") /\ last'.id \in DOMAIN runners) =>
             /\ last'.ret = "AlreadyExists"
             /\ UNCHANGED <<runners, metadata, cancels, objs, tasks>>
       /\ (CallBegins("Start") /\ last'.id \notin DOMAIN runners) =>
             /\ last'.ret = "nil"
             /\ Len(objs') = Len(objs) + 1
             /\ runners'[last'.id] = Len(objs')
       /\ \A id \in RunIDs :
             Cardinality(LiveRunners(id)') = IF id \in DOMAIN runners' THEN 1 ELSE 0
       /\ \A r \in DOMAIN objs' :
             Cardinality(TasksOf(r)') = IF hist'[r].returned THEN 1 ELSE 0]_vars

\* two Start calls with the same ID overlap: one is rejected while the other
\* has not yet launched its Runner
C15_Witness ==
    /\ last.op = "Start" /\ last.ret = "AlreadyExists"
    /\ \E t \in Threads : calls[t].pc = "go" /\ calls[t].id = last.id

\* the run of the ID was deleted and no Start has succeeded with the ID since
Deleted(id) == LiveRunners(id) = {} /\ \E r \in DOMAIN objs : objs[r].RunID = id

\* C16: a Delete of a run whose status is Running returns
\* CannotDeleteRunning and changes nothing; from a successful Delete until
\* the next successful Start with the ID, the ID is in none of runners,
\* metadata and cancels, whatever the background task of the run does.
C16_DeleteRemoves ==
    [][/\ (/\ CallBegins("Delete")
           /\ last'.id \in DOMAIN runners
           /\ objs[runners[last'.id]].Status = StatusRunning) =>
             /\ last'.ret = "CannotDeleteRunning"
             /\ UNCHANGED <<runners, metadata, cancels, objs, tasks>>
       /\ \A id \in RunIDs :
             Deleted(id)' =>
                id \notin (DOMAIN runners' \cup DOMAIN metadata' \cup DOMAIN cancels')]_vars

\* the Runners of the runs for which Start has returned successfully and
\* which have not been deleted
StartedRunners(id) == {r \in LiveRunners(id) : hist[r].returned}

\* thread t returns from its Stop in this step
StopReturns(t) == calls[t].pc = "cancel" /\ calls'[t] = IdleCall

\* C17: a Stop that begins when Start has returned successfully for the ID
\* and the run has not been deleted does not return NotFound, and when it
\* returns the context of the run's background task is cancelled, whatever
\* the background task has done so far.
C17_StopKnownRun ==
    [][/\ (CallBegins("Stop") /\ StartedRunners(last'.id) # {}) => last'.ret = "nil"
       /\ \A t \in Threads :
             StopReturns(t) =>
                \A r \in StartedRunners(calls[t].id) :
                   \E k \in TasksOf(r) : tasks'[k].done]_vars

\* the moves of the status of a run
StatusMoves ==
    {<<StatusPending, StatusRunning>>}
       \cup {<<StatusRunning, s>> : s \in Terminal}

\* C18: a Runner is created Pending, and the status of a Runner changes only
\* from Pending to Running and from Running to Completed, Failed or
\* Cancelled: no step of a Start, a Stop, a Delete, a query or a background
\* task changes the status of a run that is Completed, Failed or Cancelled.
C18_StatusMachine ==
    [][\A r \in DOMAIN objs' :
          IF r \in DOMAIN objs
          THEN \/ objs'[r].Status = objs[r].Status
               \/ <<objs[r].Status, objs'[r].Status>> \in StatusMoves
          ELSE objs'[r].Status = StatusPending]_vars

\* a Stop is about to cancel the context of a run that is Cancelled and
\* whose background task has made its final metadata update
C18_Witness ==
    \E t \in Threads :
       /\ calls[t].pc = "cancel"
       /\ tasks[calls[t].cancel].pc = "done"
       /\ objs[tasks[calls[t].cancel].runner].Status = StatusCancelled

\* a Stop has returned successfully for the run of the Runner at r while the
\* run was Running
Stopped(r) == r \in DOMAIN hist /\ hist[r].stopped

\* the Runner at r ran a cycle or appended to a log in this step
Mutates(r) ==
    \/ objs'[r].Cycle # objs[r].Cycle
    \/ objs'[r].Trades # objs[r].Trades
    \/ objs'[r].EquityPoints # objs[r].EquityPoints

\* C19: after a successful Stop on a Running run the context of the run's
\* task is cancelled; a Runner whose context is cancelled runs no further
\* cycle and appends nothing to its logs; GetTrades and GetEquityCurve return
\* the whole log of the Runner and no log ever shrinks; and, when every task
\* is scheduled, the run is eventually Cancelled.
C19_StopCancelsRun ==
    /\ [][/\ \A r \in DOMAIN objs' :
                Stopped(r)' => \E k \in TasksOf(r)' : tasks'[k].done
          /\ \A k \in DOMAIN tasks : tasks[k].done => ~Mutates(tasks[k].runner)
          /\ \A r \in DOMAIN objs :
                /\ objs'[r].Trades >= objs[r].Trades
                /\ objs'[r].EquityPoints >= objs[r].EquityPoints
          /\ (CallBegins("GetTrades") /\ last'.ret = "nil") =>
                last'.value = objs[last'.runner].Trades
          /\ (CallBegins("GetEquityCurve") /\ last'.ret = "nil") =>
                last'.value = objs[last'.runner].EquityPoints]_vars
    /\ \A r \in 1 .. MaxCalls :
          Stopped(r) ~> (r \in DOMAIN objs /\ objs[r].Status = StatusCancelled)

(***************************************************************************)
(* Properties of the Runner                                                *)
(***************************************************************************)
\* this step is the decision call for a symbol and what the Runner makes of
\* it: an Open, a Close or nothing
DecisionCall == last'.op \in {"Open", "Close", "Hold"} /\ loop'.todo # loop.todo

\* C20: a decision call is made, and its Open or Close applied, in cycle n
\* only after the CheckLiquidation of cycle n has completed, and never for a
\* symbol that CheckLiquidation liquidated in cycle n; before the
\* CheckLiquidation of a cycle no step of the cycle changes the account.
C20_LiquidationFirst ==
    [][/\ DecisionCall =>
             /\ loop.checked = loop.cycle
             /\ last'.cycle = loop.cycle
             /\ last'.symbol \notin loop.liquidated
       /\ (loop.status = StatusRunning /\ loop.checked # loop.cycle
              /\ loop'.checked = loop.checked) =>
             UNCHANGED <<cash, positions, realizedPnL, heap, trades>>
       /\ (last'.op = "CheckLiquidation") =>
             /\ loop'.checked = loop.cycle
             /\ loop'.liquidated = {last'.notes[i][1] : i \in DOMAIN last'.notes}
             /\ loop'.todo \cap loop'.liquidated = {}]_vars

\* in one cycle the position of one symbol was liquidated and a decision
\* for the other symbol was acted on
C20_Witness ==
    /\ loop.status = StatusRunning
    /\ loop.liquidated # {}
    /\ last.op \in {"Open", "Close"}
    /\ last.err = "nil"
    /\ last.cycle = loop.checked

(***************************************************************************)
(* Invariants of the account                                               *)
(***************************************************************************)
\* the positions of the account, as values
OpenPositions == {heap[positions[key]] : key \in DOMAIN positions}

\* entry * (leverage - 1) / leverage for a long, entry * (leverage + 1) /
\* leverage for a short
ExpectedLiquidationPrice(pos) ==
    IF pos.Side = "long"
    THEN Over(Times(pos.EntryPrice, FromInt(pos.Leverage - 1)), FromInt(pos.Leverage))
    ELSE Over(Times(pos.EntryPrice, FromInt(pos.Leverage + 1)), FromInt(pos.Leverage))

\* C21: in every state of the account the stored liquidation price of every
\* open position is entry * (1 - 1/leverage) for a long and
\* entry * (1 + 1/leverage) for a short, with the position's current average
\* entry price and its stored leverage: after the first Open, after an add
\* and after a partial Close.
C21_LiquidationPriceFromEntry ==
    \A pos \in OpenPositions :
       /\ pos.Leverage >= 1
       /\ pos.LiquidationPrice = ExpectedLiquidationPrice(pos)

\* a position that was added to at another price and then closed in part
C21_Witness ==
    /\ slippageRate = Zero
    /\ last.op = "Close"
    /\ last.err = "nil"
    /\ \E key \in DOMAIN positions :
          /\ key = positionKey(last.symbol, last.side)
          /\ heap[positions[key]].EntryPrice \notin run.prices
          /\ heap[positions[key]].Side = "short"

\* the quoted price moved against the trader by the slippage rate: up for a
\* buy (open of a long, close of a short), down for a sell
AdverseFill(price, side, isOpen) ==
    IF (side = "long") = isOpen
    THEN Plus(price, Times(price, slippageRate))
    ELSE Minus(price, Times(price, slippageRate))

C23_OutOfRangeClosesAll ==
    [][(/\ last'.op = "Close"
        /\ positionKey(last'.symbol, last'.side) \in DOMAIN positions) =>
          \E pos \in {heap[positions[positionKey(last'.symbol, last'.side)]]} :
             (LessEq(last'.quantity, Zero) \/ Greater(last'.quantity, pos.Quantity)) =>
                \E full \in {Close(Acct, last'.symbol, last'.side, pos.Quantity, last'.price)} :
                   /\ last'.err = "nil"
                   /\ full.err = "nil"
                   /\ last'.realized = full.realized
                   /\ last'.fee = full.fee
                   /\ last'.execPrice = full.execPrice
                   /\ cash' = full.a.cash
                   /\ realizedPnL' = full.a.realizedPnL
                   /\ positionKey(last'.symbol, last'.side) \notin DOMAIN positions'
                   /\ DOMAIN positions' = DOMAIN positions \ {positionKey(last'.symbol, last'.side)}]_vars

\* a Close with quantity 0 that closed a position with a profit or a loss
C23_Witness ==
    /\ CloseSucceeded(last)
    /\ last.quantity = Zero
    /\ last.realized # Zero
    /\ positionKey(last.symbol, last.side) \notin DOMAIN positions

\* C24: every position in the position map has a quantity greater than
\* zero; a position whose quantity reaches zero is deleted.
C24_OpenQuantityPositive ==
    \A key \in DOMAIN positions : Greater(heap[positions[key]].Quantity, Zero)

\* a Close has just removed one position and another one is still open
C24_Witness ==
    /\ CloseSucceeded(last)
    /\ positionKey(last.symbol, last.side) \notin DOMAIN positions
    /\ DOMAIN positions # {}

(***************************************************************************)
(* Trade counts of CalculateMetrics                                        *)
(***************************************************************************)
\* the number of trades of the log that satisfy Test
NumberOf(log, Test(_)) == Len(SelectSeq(log, Test))

NotLiquidationWithPnL(t) == t.Action # "liquidated" /\ t.RealizedPnL # FZero

RECURSIVE SymbolTradesOf(_, _)
\* the sum of the TotalTrades of the symbols in S
SymbolTradesOf(stats, S) ==
    IF S = {} THEN 0
    ELSE LET s == CHOOSE x \in S : TRUE
         IN  stats[s].TotalTrades + SymbolTradesOf(stats, S \ {s})

\* the counts of the metrics are those of the trades of the log that are not
\* liquidations and have a non-zero realized P&L
CountsOfLog(m, log) ==
    /\ m.TotalTrades = NumberOf(log, NotLiquidationWithPnL)
    /\ m.WinningTrades =
           NumberOf(log, LAMBDA t : NotLiquidationWithPnL(t) /\ FGreater(t.RealizedPnL, FZero))
    /\ m.LosingTrades =
           NumberOf(log, LAMBDA t : NotLiquidationWithPnL(t) /\ FLess(t.RealizedPnL, FZero))
    /\ \A s \in DOMAIN m.SymbolStats :
          /\ m.SymbolStats[s].TotalTrades =
                 NumberOf(log, LAMBDA t : NotLiquidationWithPnL(t) /\ t.Symbol = s)
          /\ m.SymbolStats[s].LongTrades =
                 NumberOf(log, LAMBDA t : NotLiquidationWithPnL(t) /\ t.Symbol = s
                                            /\ t.Side = "long")

CountsAddUp(m) ==
    /\ m.TotalTrades = m.WinningTrades + m.LosingTrades
    /\ \A s \in DOMAIN m.SymbolStats :
          m.SymbolStats[s].LongTrades + m.SymbolStats[s].ShortTrades =
              m.SymbolStats[s].TotalTrades
    /\ SymbolTradesOf(m.SymbolStats, DOMAIN m.SymbolStats) = m.TotalTrades

\* C25: CalculateMetrics counts a trade if and only if it is not a
\* liquidation and its realized P&L is not zero, as a win when the P&L is
\* positive and as a loss when it is negative; TotalTrades = WinningTrades +
\* LosingTrades, LongTrades + ShortTrades = TotalTrades for every symbol, and
\* the symbols' TotalTrades add up to TotalTrades.
C25_CountsEveryTrade ==
    MetricsComputed => CountsOfLog(metrics, trades) /\ CountsAddUp(metrics)

\* C25, amended: the same for a non-empty equity curve; for an empty equity
\* curve no trade is counted, and the counts add up in both cases.
C25_CountsWithCurve ==
    MetricsComputed =>
        /\ Len(equityCurve) > 0 => CountsOfLog(metrics, trades)
        /\ Len(equityCurve) = 0 => metrics = EmptyMetrics
        /\ CountsAddUp(metrics)

\* a log of a losing close and a liquidation with a realized P&L, on a curve
\* with one point: the close alone is counted
C25_Witness ==
    /\ MetricsComputed
    /\ Len(equityCurve) > 0
    /\ Len(trades) = 2
    /\ \E i \in 1 .. 2 : trades[i].Action = "liquidated" /\ trades[i].RealizedPnL # FZero
    /\ metrics.TotalTrades = 1
    /\ metrics.LosingTrades = 1

(***************************************************************************)
(* The ledger of the account                                               *)
(***************************************************************************)
RECURSIVE LockedIn(_)
\* the margins and accumulated fees of the positions with the keys in S
LockedIn(S) ==
    IF S = {} THEN Zero
    ELSE LET key == CHOOSE k \in S : TRUE
             pos == heap[positions[key]]
         IN  Plus(Plus(pos.Margin, pos.AccumulatedFee), LockedIn(S \ {key}))

\* C26: cash + the margins of the open positions + their accumulated fees
\* equals the initial balance + the cumulative realized P&L; with no open
\* position, cash - initial balance is the cumulative realized P&L.
C26_LedgerConservation ==
    /\ Plus(cash, LockedIn(DOMAIN positions)) = Plus(run.initialBalance, realizedPnL)
    /\ DOMAIN positions = {} => Minus(cash, run.initialBalance) = realizedPnL

\* a partial Close on an account that charges fees: a part of the opening
\* fees has moved from the position to the realized P&L
C26_Witness ==
    /\ Greater(feeRate, Zero)
    /\ CloseSucceeded(last)
    /\ positionKey(last.symbol, last.side) \in DOMAIN positions
    /\ realizedPnL # Zero
    /\ Greater(LockedIn(DOMAIN positions), Zero)

(***************************************************************************)
(* The sign of the cash                                                    *)
(***************************************************************************)
\* C27: from a non-negative initial balance, with non-negative prices, fee
\* and slippage rates, cash is non-negative in every reachable state.
C27_CashNeverNegative ==
    (/\ GreaterEq(run.initialBalance, Zero)
     /\ GreaterEq(feeRate, Zero)
     /\ GreaterEq(slippageRate, Zero)
     /\ \A price \in run.prices : GreaterEq(price, Zero)) => GreaterEq(cash, Zero)

\* C27, amended: cash is non-negative after every successful Open, and an
\* Open that fails leaves it unchanged; cash becomes negative only by a Close
\* or a liquidation that realizes a net loss.
C27_OpenKeepsCashNonNegative ==
    [][/\ OpenSucceeded(last') => GreaterEq(cash', Zero)
       /\ (last'.op = "Open" /\ last'.err # "nil") => cash' = cash
       /\ (GreaterEq(cash, Zero) /\ Less(cash', Zero)) =>
              /\ last'.op \in {"Close", "CheckLiquidation"}
              /\ Less(realizedPnL', realizedPnL)]_vars

\* a Close at a loss has left the cash negative
C27_Witness ==
    /\ CloseSucceeded(last)
    /\ Less(last.realized, Zero)
    /\ Less(cash, Zero)

(***************************************************************************)
(* One position per symbol and side                                        *)
(***************************************************************************)
\* the position of symbol and side in position map pmap of heap h, if any
PositionsOf(h, pmap, symbol, side) ==
    {h[pmap[k]] : k \in {x \in DOMAIN pmap : h[pmap[x]].Symbol = symbol
                                             /\ h[pmap[x]].Side = side}}

\* the (symbol, side) pairs the last call worked on: the arguments of an
\* Open or Close, the positions a CheckLiquidation closed
Touched(l) ==
    IF l.op \in {"Open", "Close"} THEN {<<l.symbol, l.side>>}
    ELSE IF l.op = "CheckLiquidation" THEN {l.notes[i] : i \in DOMAIN l.notes}
    ELSE {}

\* C28: the account holds at most one position per (symbol, side), and an
\* Open, a Close or a liquidation of the position of (symbol, side) leaves
\* every other position as it was, the position of the other side of the
\* same symbol included.
C28_OtherPositionsUntouched ==
    [][/\ \A key \in DOMAIN positions' :
             key = positionKey(heap'[positions'[key]].Symbol, heap'[positions'[key]].Side)
       /\ \A symbol \in run.symbols, side \in Sides :
             Cardinality({key \in DOMAIN positions' :
                             /\ heap'[positions'[key]].Symbol = symbol
                             /\ heap'[positions'[key]].Side = side}) <= 1
       /\ \A symbol \in run.symbols, side \in Sides :
             <<symbol, side>> \notin Touched(last') =>
                 PositionsOf(heap', positions', symbol, side) =
                     PositionsOf(heap, positions, symbol, side)]_vars

\* a Close of one side of a symbol with the other side of that symbol open
C28_Witness ==
    /\ CloseSucceeded(last)
    /\ PositionsOf(heap, positions, last.symbol, last.side) = {}
    /\ \E side \in Sides \ {last.side} :
          PositionsOf(heap, positions, last.symbol, side) # {}

(***************************************************************************)
(* Runs at work and the runners map                                        *)
(***************************************************************************)
\* m.runners holds the Runner at r under the Runner's own run ID
Registered(r) == Exists(objs[r].RunID) /\ runners[objs[r].RunID] = r

\* C29: a run whose Runner is executing, or whose background task has not
\* finished, is in the runners map, so that GetStatus finds it: no Delete
\* leaves behind a Runner that is running or will still start.
C29_RunsAtWorkAreRegistered ==
    /\ \A k \in DOMAIN tasks : tasks[k].pc # "done" => Registered(tasks[k].runner)
    /\ \A r \in DOMAIN objs : objs[r].Status = StatusRunning => Registered(r)

(***************************************************************************)
(* Properties of the retry loops                                           *)
(***************************************************************************)
Returned(r) == r.pc = "return"

LastOutcome(r) == r.outcomes[Len(r.outcomes)]

\* C30: a call makes at most its maximum of attempts (3 for
\* ChatWithReasoning, MaxRetries for CallWithRequest); an attempt follows
\* only attempts that failed with a retryable error; a sleep is made only
\* between two attempts; the call returns the result of its first successful
\* attempt, or the error of its first attempt that failed with an error that
\* is not retryable, or else a "max retries exceeded" error that wraps the
\* error of its last attempt.
C30_RetryLoopBounded ==
    /\ Len(retry.outcomes) <= retry.maxRetries
    /\ \A i \in 1 .. (Len(retry.outcomes) - 1) : isRetryableError(retry.outcomes[i])
    /\ Len(retry.sleeps) <= Len(retry.outcomes)
    /\ \A i \in DOMAIN retry.sleeps : i < retry.maxRetries
    /\ Returned(retry) =>
          /\ Len(retry.sleeps) = IF retry.outcomes = <<>> THEN 0 ELSE Len(retry.outcomes) - 1
          /\ \/ /\ retry.ret.err = NilError
                /\ retry.outcomes # <<>>
                /\ LastOutcome(retry) = "ok"
                /\ retry.ret.result = Len(retry.outcomes)
             \/ /\ retry.ret.err.kind = "attempt"
                /\ retry.outcomes # <<>>
                /\ LastOutcome(retry) = retry.ret.err.wraps
                /\ LastOutcome(retry) \in AttemptErrors
                /\ ~isRetryableError(LastOutcome(retry))
             \/ /\ retry.ret.err.kind = "max retries exceeded"
                /\ retry.outcomes # <<>>
                /\ LastOutcome(retry) = retry.ret.err.wraps
                /\ isRetryableError(LastOutcome(retry))
                /\ Len(retry.outcomes) = retry.maxRetries

====
